---- MODULE Spec2Model ----
(***************************************************************************)
(* The kata-07 HTTP tool-invocation server (mcp_server.py): the tool       *)
(* registry, the seven upstream connectors, the name->handler table and    *)
(* the request handler MCPRequestHandler, as a state machine that handles  *)
(* one request per step.  The upstream Atlassian service is the            *)
(* environment: each upstream call gets a reply chosen nondeterministically*)
(* (a transport exception, or an HTTP status with a body).                 *)
(*                                                                         *)
(* Record constructors and sets of strings list their members in the order *)
(* in which the names first occur in the module, which is the order TLC    *)
(* sorts them in: every such value is written in its normal form.          *)
(***************************************************************************)
EXTENDS Integers, Sequences, FiniteSets, TLC

(***************************************************************************)
(* Python values.  Every value carries its type tag; a str is a TLA+       *)
(* string, a dict a function from its (string) keys to values.             *)
(***************************************************************************)
PyNone == [t |-> "None"]
PyStr(s) == [t |-> "str", s |-> s]
PyInt(n) == [t |-> "int", n |-> n]
PyBool(b) == [t |-> "bool", b |-> b]
PyList(l) == [t |-> "list", l |-> l]
PyDict(d) == [t |-> "dict", d |-> d]
EmptyDict == PyDict([k \in {} |-> PyNone])

\* Python truth value of a value (`if not x`)
Truthy(v) ==
    CASE v.t = "None" -> FALSE
      [] v.t = "str"  -> v.s # ""
      [] v.t = "int"  -> v.n # 0
      [] v.t = "bool" -> v.b
      [] v.t = "list" -> Len(v.l) > 0
      [] v.t = "dict" -> DOMAIN v.d # {}

\* only list and dict values are unhashable among JSON values
Hashable(v) == v.t \notin {"list", "dict"}

\* a raised exception: its class and str(e)
Exc(type, msg) == [type |-> type, msg |-> msg]
\* outcome of evaluating an expression: a value, or a raised exception
Ok(v) == [v |-> v, ok |-> TRUE]
Raise(type, msg) == [ok |-> FALSE, exc |-> Exc(type, msg)]

\* substring test on strings (Python `sub in text`)
Contains(text, sub) ==
    \/ sub = ""
    \/ \E i \in 1..Len(text) : \E j \in i..Len(text) : SubSeq(text, i, j) = sub

Digits == <<"0", "1", "2", "3", "4", "5", "6", "7", "8", "9">>
RECURSIVE NatStr(_)
NatStr(n) == IF n < 10 THEN Digits[n + 1]
             ELSE NatStr(n \div 10) \o Digits[(n % 10) + 1]
\* str(n) of an int
IntStr(n) == IF n < 0 THEN "-" \o NatStr(-n) ELSE NatStr(n)

\* str(v) / f"{v}" of a scalar value (the repr of a list or dict is not
\* spelled out; no request or reply of the model formats one)
Format(v) ==
    CASE v.t = "None" -> "None"
      [] v.t = "str"  -> v.s
      [] v.t = "int"  -> IntStr(v.n)
      [] v.t = "bool" -> IF v.b THEN "True" ELSE "False"
      [] OTHER        -> "<repr>"

\* type(v).__name__
TypeName(v) == IF v.t = "None" THEN "NoneType" ELSE v.t

\* `then` applied to the value of `out`, or the exception `out` raised
Bind(out, then(_)) == IF out.ok THEN then(out.v) ELSE out

\* v.get(k, default): AttributeError unless v is a dict
Get(v, k, default) ==
    IF v.t = "dict"
    THEN Ok(IF k \in DOMAIN v.d THEN v.d[k] ELSE default)
    ELSE Raise("AttributeError",
               "'" \o TypeName(v) \o "' object has no attribute 'get'")

\* v[k] for a str key k
Subscript(v, k) ==
    CASE v.t = "dict" ->
            IF k \in DOMAIN v.d THEN Ok(v.d[k])
            ELSE Raise("KeyError", "'" \o k \o "'")
      [] v.t = "str" ->
            Raise("TypeError", "string indices must be integers, not 'str'")
      [] v.t = "list" ->
            Raise("TypeError", "list indices must be integers or slices, not str")
      [] OTHER ->
            Raise("TypeError",
                  "'" \o TypeName(v) \o "' object is not subscriptable")

\* v[k1][k2]...: the subscripts applied left to right
RECURSIVE Path(_, _)
Path(v, keys) ==
    IF keys = << >> THEN Ok(v)
    ELSE Bind(Subscript(v, Head(keys)), LAMBDA w : Path(w, Tail(keys)))

\* `k in v` for a str k
In(k, v) ==
    CASE v.t = "dict" -> Ok(k \in DOMAIN v.d)
      [] v.t = "str"  -> Ok(Contains(v.s, k))
      [] v.t = "list" -> Ok(\E i \in 1..Len(v.l) : v.l[i] = PyStr(k))
      [] OTHER ->
            Raise("TypeError",
                  "argument of type '" \o TypeName(v) \o "' is not iterable")

\* the keys of a dict body in iteration order (the order of the JSON text;
\* the sample bodies that get iterated have at most one key)
RECURSIVE KeySeq(_)
KeySeq(ks) ==
    IF ks = {} THEN << >>
    ELSE LET k == CHOOSE x \in ks : TRUE IN <<PyStr(k)>> \o KeySeq(ks \ {k})

\* the items `for x in v` visits
Iterate(v) ==
    CASE v.t = "list" -> Ok(v.l)
      [] v.t = "dict" -> Ok(KeySeq(DOMAIN v.d))
      [] v.t = "str"  -> Ok([i \in 1..Len(v.s) |-> PyStr(SubSeq(v.s, i, i))])
      [] OTHER ->
            Raise("TypeError", "'" \o TypeName(v) \o "' object is not iterable")

\* the first exception among outcomes outs[1..], evaluated left to right
RECURSIVE FirstRaise(_)
FirstRaise(outs) ==
    IF outs = << >> THEN Ok(PyNone)
    ELSE IF Head(outs).ok THEN FirstRaise(Tail(outs)) ELSE Head(outs)

\* a dict display {keys[1]: outs[1], ...}: its entries are evaluated in
\* order and the first exception propagates
MakeDict(keys, outs) ==
    LET bad == FirstRaise(outs) IN
    IF ~bad.ok THEN bad
    ELSE Ok(PyDict([k \in {keys[i] : i \in 1..Len(keys)} |->
                      outs[CHOOSE i \in 1..Len(keys) : keys[i] = k].v]))

\* [f(x) for x in items]: a list of the values, or the first exception
MapList(items, f(_)) ==
    LET outs == [i \in 1..Len(items) |-> f(items[i])]
        bad == FirstRaise(outs) IN
    IF ~bad.ok THEN bad
    ELSE Ok(PyList([i \in 1..Len(items) |-> outs[i].v]))


(***************************************************************************)
(* JSON documents, as they travel in request and response bodies, and the  *)
(* json module's conversions between them and Python values.               *)
(***************************************************************************)
JNull == [j |-> "null"]
JString(s) == [s |-> s, j |-> "string"]
JNumber(n) == [n |-> n, j |-> "number"]
JBoolean(b) == [b |-> b, j |-> "boolean"]
JArray(a) == [j |-> "array", a |-> a]
JObject(o) == [j |-> "object", o |-> o]
EmptyObject == JObject([k \in {} |-> JNull])

\* json.dumps(v): the document that encodes a Python value
RECURSIVE json_dumps(_)
json_dumps(v) ==
    CASE v.t = "None" -> JNull
      [] v.t = "str"  -> JString(v.s)
      [] v.t = "int"  -> JNumber(v.n)
      [] v.t = "bool" -> JBoolean(v.b)
      [] v.t = "list" -> JArray([i \in 1..Len(v.l) |-> json_dumps(v.l[i])])
      [] v.t = "dict" -> JObject([k \in DOMAIN v.d |-> json_dumps(v.d[k])])

\* the Python value json.loads() builds from a document
RECURSIVE FromJson(_)
FromJson(doc) ==
    CASE doc.j = "null"    -> PyNone
      [] doc.j = "string"  -> PyStr(doc.s)
      [] doc.j = "number"  -> PyInt(doc.n)
      [] doc.j = "boolean" -> PyBool(doc.b)
      [] doc.j = "array"   -> PyList([i \in 1..Len(doc.a) |-> FromJson(doc.a[i])])
      [] doc.j = "object"  -> PyDict([k \in DOMAIN doc.o |-> FromJson(doc.o[k])])

\* a body of bytes: empty, not UTF-8, text that is not JSON, or a document
EmptyBody == [kind |-> "empty"]
UndecodableBody == [kind |-> "undecodable"]
MalformedBody == [kind |-> "malformed"]
JsonBody(doc) == [doc |-> doc, kind |-> "json"]

\* json.loads(body) on a non-empty body
json_loads(body) ==
    CASE body.kind = "json" -> Ok(FromJson(body.doc))
      [] body.kind = "malformed" ->
            Raise("JSONDecodeError", "Expecting value: line 1 column 1 (char 0)")
      [] body.kind = "undecodable" ->
            Raise("UnicodeDecodeError",
                  "'utf-8' codec can't decode byte 0xff in position 0: invalid start byte")

(***************************************************************************)
(* The tool registry.                                                      *)
(***************************************************************************)
Param(name, type, description, required) ==
    PyDict([type |-> PyStr(type), name |-> PyStr(name),
            description |-> PyStr(description), required |-> PyBool(required)])
Tool(name, description, parameters) ==
    PyDict([name |-> PyStr(name), description |-> PyStr(description),
            parameters |-> PyList(parameters)])

TOOLS == PyList(<<
    Tool("jira_get_projects",
         "List all Jira projects accessible to the user", << >>),
    Tool("jira_search_issues",
         "Search Jira issues using JQL (Jira Query Language)", <<
         Param("jql", "string", "JQL query string", FALSE),
         Param("max_results", "integer", "Maximum results (default 10)", FALSE) >>),
    Tool("jira_get_issue",
         "Get details of a specific Jira issue by key", <<
         Param("issue_key", "string", "Issue key (e.g., PROJ-123)", TRUE) >>),
    Tool("jira_create_issue",
         "Create a new Jira issue", <<
         Param("project_key", "string", "Project key (e.g., PROJ)", TRUE),
         Param("summary", "string", "Issue summary/title", TRUE),
         Param("issue_type", "string", "Issue type (Task, Bug, Story)", FALSE),
         Param("description", "string", "Issue description", FALSE) >>),
    Tool("confluence_get_spaces",
         "List all Confluence spaces accessible to the user", << >>),
    Tool("confluence_search",
         "Search Confluence pages by text", <<
         Param("query", "string", "Search query text", TRUE),
         Param("max_results", "integer", "Maximum results (default 10)", FALSE) >>),
    Tool("confluence_get_page",
         "Get content of a specific Confluence page", <<
         Param("page_id", "string", "Page ID", TRUE) >>) >>)

\* the base URL the connectors prepend (os.getenv("ATLASSIAN_URL").rstrip("/"))
ATLASSIAN_URL == "https://example.atlassian.net"

(***************************************************************************)
(* Upstream requests.  A reply is what requests.request() produces for one *)
(* call: an exception (DNS, connect, ...) or a response with its status,   *)
(* its text, and what response.json() yields on that text.                 *)
(***************************************************************************)
TransportFailure(exc) == [exc |-> exc, kind |-> "raise"]
HttpReply(status, text, body) ==
    [text |-> text, kind |-> "http", body |-> body, status_code |-> status]

\* response.json()
ResponseJson(response) ==
    IF response.body.kind = "json" THEN json_loads(response.body)
    ELSE Raise("JSONDecodeError", "Expecting value: line 1 column 1 (char 0)")

\* get_auth(): the configured (email, token) pair
get_auth == <<"user@example.com", "api-token">>

\* the one HTTP request jira_request() sends (`json=data if data else None`)
jira_request(method, endpoint, data) ==
    [method |-> method,
     url |-> ATLASSIAN_URL \o "/rest/api/3" \o endpoint,
     auth |-> get_auth,
     json |-> IF Truthy(data) THEN json_dumps(data) ELSE JNull]

\* the one HTTP request confluence_request() sends
confluence_request(method, endpoint, data) ==
    [method |-> method,
     url |-> ATLASSIAN_URL \o "/wiki/rest/api" \o endpoint,
     auth |-> get_auth,
     json |-> IF Truthy(data) THEN json_dumps(data) ELSE JNull]

\* outcome of requests.request(): the response, or the transport exception
Response(reply) ==
    IF reply.kind = "raise" THEN [ok |-> FALSE, exc |-> reply.exc] ELSE Ok(reply)

\* UpstreamError without the status code
UpstreamError_TextOnly(response) ==
    PyDict([error |-> PyStr(response.text)])

\* {"error": response.text, "status_code": response.status_code}
UpstreamError(response) ==
    PyDict([status_code |-> PyInt(response.status_code),
            error |-> PyStr(response.text)])

\* percent-encoding of the reserved characters the model's strings use;
\* quote() leaves letters, digits and "_.-~/" as they are
Percent == [c \in {"=", "&", "(", ")", ":", " ", "\"", "?"} |->
              CASE c = " " -> "%20" [] c = "=" -> "%3D" [] c = "\"" -> "%22"
                [] c = ":" -> "%3A" [] c = "?" -> "%3F" [] c = "&" -> "%26"
                [] c = "(" -> "%28" [] c = ")" -> "%29"]
RECURSIVE QuoteStr(_)
QuoteStr(s) ==
    IF s = "" THEN ""
    ELSE LET c == SubSeq(s, 1, 1) IN
         (IF c \in DOMAIN Percent THEN Percent[c] ELSE c)
            \o QuoteStr(SubSeq(s, 2, Len(s)))
\* urllib.parse.quote(v): TypeError unless v is a str
quote(v) ==
    IF v.t = "str" THEN Ok(QuoteStr(v.s))
    ELSE Raise("TypeError", "quote_from_bytes() expected bytes")

\* s.split("/")[-1]
RECURSIVE LastSegment(_)
LastSegment(s) ==
    IF ~Contains(s, "/") THEN s
    ELSE LastSegment(SubSeq(s, 2, Len(s)))

\* what a connector did: the upstream calls it made and how it ended
Did(calls, out) == [out |-> out, calls |-> calls]

(***************************************************************************)
(* The connectors (tool implementations).                                  *)
(***************************************************************************)
\* tool_jira_get_projects sending its request again when the first fails
tool_jira_get_projects_Retry(params, reply) ==
    LET call == jira_request("GET", "/project", PyNone)
        project(p) == MakeDict(<<"key", "name", "id">>,
                               <<Subscript(p, "key"), Subscript(p, "name"),
                                 Subscript(p, "id")>>)
        success(response) ==
            Bind(ResponseJson(response), LAMBDA projects :
            Bind(Iterate(projects), LAMBDA items :
            Bind(MapList(items, project), LAMBDA list :
            Ok(PyDict([projects |-> list])))))
    IN Did(IF reply.kind = "http" /\ reply.status_code = 200
           THEN <<call>> ELSE <<call, call>>,
           Bind(Response(reply), LAMBDA response :
                IF response.status_code = 200 THEN success(response)
                ELSE Ok(UpstreamError(response))))

tool_jira_get_projects(params, reply) ==
    LET call == jira_request("GET", "/project", PyNone)
        project(p) == MakeDict(<<"key", "name", "id">>,
                               <<Subscript(p, "key"), Subscript(p, "name"),
                                 Subscript(p, "id")>>)
        success(response) ==
            Bind(ResponseJson(response), LAMBDA projects :
            Bind(Iterate(projects), LAMBDA items :
            Bind(MapList(items, project), LAMBDA list :
            Ok(PyDict([projects |-> list])))))
    IN Did(<<call>>,
           Bind(Response(reply), LAMBDA response :
                IF response.status_code = 200 THEN success(response)
                ELSE Ok(UpstreamError(response))))

\* the isinstance(...)-guarded name lookup of the flat issue format
FlatName(issue, field) ==
    Bind(Get(issue, field, PyNone), LAMBDA probe :
         IF probe.t = "dict"
         THEN Bind(Get(issue, field, EmptyDict), LAMBDA d :
                   Get(d, "name", PyStr("Unknown")))
         ELSE Bind(Get(issue, field, PyStr("Unknown")), LAMBDA x :
                   Ok(PyStr(Format(x)))))

\* NormalizeIssue without the branch for the flat format
NormalizeIssue_NestedOnly(issue) ==
    MakeDict(<<"key", "summary", "status", "type", "created">>,
             <<Subscript(issue, "key"),
               Path(issue, <<"fields", "summary">>),
               Path(issue, <<"fields", "status", "name">>),
               Path(issue, <<"fields", "issuetype", "name">>),
               Path(issue, <<"fields", "created">>)>>)

\* one entry of the normalized issue list
NormalizeIssue(issue) ==
    Bind(In("fields", issue), LAMBDA nested :
         IF nested
         THEN MakeDict(<<"key", "summary", "status", "type", "created">>,
                       <<Subscript(issue, "key"),
                         Path(issue, <<"fields", "summary">>),
                         Path(issue, <<"fields", "status", "name">>),
                         Path(issue, <<"fields", "issuetype", "name">>),
                         Path(issue, <<"fields", "created">>)>>)
         ELSE MakeDict(<<"key", "summary", "status", "type", "created">>,
                       <<Bind(Get(issue, "id", PyStr("unknown")), LAMBDA d :
                              Get(issue, "key", d)),
                         Bind(Get(issue, "summaryText", PyStr("No summary")),
                              LAMBDA d : Get(issue, "summary", d)),
                         FlatName(issue, "status"),
                         FlatName(issue, "issuetype"),
                         Get(issue, "created", PyStr("Unknown"))>>))

tool_jira_search_issues(params, reply) ==
    LET args ==
            Bind(Get(params, "jql", PyStr("ORDER BY created DESC")), LAMBDA jql :
            Bind(Get(params, "max_results", PyInt(10)), LAMBDA max_results :
            Bind(quote(jql), LAMBDA q :
            Ok("/search/jql?jql=" \o q \o "&maxResults=" \o Format(max_results)
                 \o "&fields=summary,status,issuetype,created"))))
        success(response) ==
            Bind(ResponseJson(response), LAMBDA data :
            Bind(IF data.t = "list" THEN Ok(data)
                 ELSE Get(data, "issues", PyList(<< >>)), LAMBDA issue_list :
            Bind(Iterate(issue_list), LAMBDA items :
            Bind(MapList(items, NormalizeIssue), LAMBDA issues :
            Bind(IF data.t = "dict"
                 THEN Get(data, "total", PyInt(Len(issues.l)))
                 ELSE Ok(PyInt(Len(issues.l))), LAMBDA total :
            Ok(PyDict([issues |-> issues, total |-> total])))))))
    IN IF ~args.ok THEN Did(<< >>, args)
       ELSE Did(<<jira_request("GET", args.v, PyNone)>>,
                Bind(Response(reply), LAMBDA response :
                     IF response.status_code = 200 THEN success(response)
                     ELSE Ok(UpstreamError(response))))

tool_jira_get_issue(params, reply) ==
    LET issue_key == Get(params, "issue_key", PyNone)
        fields(issue) == Subscript(issue, "fields")
        success(response) ==
            Bind(ResponseJson(response), LAMBDA issue :
            MakeDict(<<"key", "summary", "description", "status", "type",
                       "priority", "assignee", "created", "updated">>,
                     <<Subscript(issue, "key"),
                       Path(issue, <<"fields", "summary">>),
                       Bind(fields(issue), LAMBDA f :
                            Get(f, "description", PyNone)),
                       Path(issue, <<"fields", "status", "name">>),
                       Path(issue, <<"fields", "issuetype", "name">>),
                       Bind(fields(issue), LAMBDA f :
                            Bind(Get(f, "priority", EmptyDict), LAMBDA p :
                                 Get(p, "name", PyNone))),
                       Bind(fields(issue), LAMBDA f :
                            Bind(Get(f, "assignee", PyNone), LAMBDA probe :
                                 IF Truthy(probe)
                                 THEN Bind(Get(f, "assignee", EmptyDict),
                                           LAMBDA a :
                                           Get(a, "displayName", PyNone))
                                 ELSE Ok(PyNone))),
                       Path(issue, <<"fields", "created">>),
                       Path(issue, <<"fields", "updated">>)>>))
    IN IF ~issue_key.ok THEN Did(<< >>, issue_key)
       ELSE IF ~Truthy(issue_key.v)
       THEN Did(<< >>, Ok(PyDict([error |-> PyStr("issue_key is required")])))
       ELSE Did(<<jira_request("GET", "/issue/" \o Format(issue_key.v), PyNone)>>,
                Bind(Response(reply), LAMBDA response :
                     IF response.status_code = 200 THEN success(response)
                     ELSE Ok(UpstreamError(response))))

\* the request body tool_jira_create_issue builds
CreateIssueData(project_key, summary, issue_type, description) ==
    PyDict([fields |-> PyDict([
        description |-> PyDict([
            type |-> PyStr("doc"),
            version |-> PyInt(1),
            content |->
                IF Truthy(description)
                THEN PyList(<<PyDict([
                        type |-> PyStr("paragraph"),
                        content |-> PyList(<<PyDict([
                            type |-> PyStr("text"),
                            text |-> description])>>)])>>)
                ELSE PyList(<< >>)]),
        project |-> PyDict([key |-> project_key]),
        summary |-> summary,
        issuetype |-> PyDict([name |-> issue_type])])])

tool_jira_create_issue(params, reply) ==
    LET args ==
            Bind(Get(params, "project_key", PyNone), LAMBDA project_key :
            Bind(Get(params, "summary", PyNone), LAMBDA summary :
            Bind(Get(params, "issue_type", PyStr("Task")), LAMBDA issue_type :
            Bind(Get(params, "description", PyStr("")), LAMBDA description :
            Ok([description |-> description, project_key |-> project_key,
                summary |-> summary, issue_type |-> issue_type])))))
        success(response) ==
            Bind(ResponseJson(response), LAMBDA result :
            MakeDict(<<"key", "id", "self">>,
                     <<Subscript(result, "key"), Subscript(result, "id"),
                       Subscript(result, "self")>>))
    IN IF ~args.ok THEN Did(<< >>, args)
       ELSE IF ~Truthy(args.v.project_key) \/ ~Truthy(args.v.summary)
       THEN Did(<< >>, Ok(PyDict([error |->
                    PyStr("project_key and summary are required")])))
       ELSE Did(<<jira_request("POST", "/issue",
                      CreateIssueData(args.v.project_key, args.v.summary,
                                      args.v.issue_type, args.v.description))>>,
                Bind(Response(reply), LAMBDA response :
                     IF response.status_code \in {200, 201}
                     THEN success(response)
                     ELSE Ok(UpstreamError(response))))

\* tool_confluence_get_spaces taking every 2xx status for a success
tool_confluence_get_spaces_Any2xx(params, reply) ==
    LET call == confluence_request("GET", "/space", PyNone)
        space(sp) == MakeDict(<<"key", "name", "type", "id">>,
                              <<Subscript(sp, "key"), Subscript(sp, "name"),
                                Subscript(sp, "type"), Subscript(sp, "id")>>)
        success(response) ==
            Bind(ResponseJson(response), LAMBDA data :
            Bind(Get(data, "results", PyList(<< >>)), LAMBDA results :
            Bind(Iterate(results), LAMBDA items :
            Bind(MapList(items, space), LAMBDA spaces :
            Ok(PyDict([spaces |-> spaces]))))))
    IN Did(<<call>>,
           Bind(Response(reply), LAMBDA response :
                IF response.status_code \in 200..299 THEN success(response)
                ELSE Ok(UpstreamError(response))))

tool_confluence_get_spaces(params, reply) ==
    LET call == confluence_request("GET", "/space", PyNone)
        space(sp) == MakeDict(<<"key", "name", "type", "id">>,
                              <<Subscript(sp, "key"), Subscript(sp, "name"),
                                Subscript(sp, "type"), Subscript(sp, "id")>>)
        success(response) ==
            Bind(ResponseJson(response), LAMBDA data :
            Bind(Get(data, "results", PyList(<< >>)), LAMBDA results :
            Bind(Iterate(results), LAMBDA items :
            Bind(MapList(items, space), LAMBDA spaces :
            Ok(PyDict([spaces |-> spaces]))))))
    IN Did(<<call>>,
           Bind(Response(reply), LAMBDA response :
                IF response.status_code = 200 THEN success(response)
                ELSE Ok(UpstreamError(response))))

\* the space key read from page["_expandable"]["space"]
\* ("/rest/api/space/HR" -> "HR")
SpaceKey(page) ==
    Bind(Get(page, "_expandable", EmptyDict), LAMBDA e :
    Bind(Get(e, "space", PyStr("")), LAMBDA expandable_space :
         IF ~Truthy(expandable_space) THEN Ok(PyNone)
         ELSE Bind(In("/", expandable_space), LAMBDA slash :
                   IF ~slash THEN Ok(PyNone)
                   ELSE IF expandable_space.t = "str"
                   THEN Ok(PyStr(LastSegment(expandable_space.s)))
                   ELSE Raise("AttributeError",
                              "'" \o TypeName(expandable_space)
                                  \o "' object has no attribute 'split'"))))

\* one entry of the normalized page list
NormalizePage(page) ==
    Bind(SpaceKey(page), LAMBDA space_key :
         MakeDict(<<"id", "title", "type", "space">>,
                  <<Subscript(page, "id"), Subscript(page, "title"),
                    Subscript(page, "type"), Ok(space_key)>>))

tool_confluence_search(params, reply) ==
    LET args ==
            Bind(Get(params, "query", PyNone), LAMBDA query :
            Bind(Get(params, "max_results", PyInt(10)), LAMBDA max_results :
            Ok([max_results |-> max_results, query |-> query])))
        cql(query) == "type=page AND title~\"" \o Format(query) \o "\""
        success(response) ==
            Bind(ResponseJson(response), LAMBDA data :
            Bind(Get(data, "results", PyList(<< >>)), LAMBDA results :
            Bind(Iterate(results), LAMBDA items :
            Bind(MapList(items, NormalizePage), LAMBDA pages :
            Bind(Get(data, "size", PyInt(Len(pages.l))), LAMBDA total :
            Ok(PyDict([total |-> total, pages |-> pages])))))))
    IN IF ~args.ok THEN Did(<< >>, args)
       ELSE IF ~Truthy(args.v.query)
       THEN Did(<< >>, Ok(PyDict([error |-> PyStr("query is required")])))
       ELSE Did(<<confluence_request("GET",
                      "/content/search?cql=" \o QuoteStr(cql(args.v.query))
                          \o "&limit=" \o Format(args.v.max_results),
                      PyNone)>>,
                Bind(Response(reply), LAMBDA response :
                     IF response.status_code = 200 THEN success(response)
                     ELSE Ok(UpstreamError(response))))

\* tool_confluence_get_page with the page_id check after the request
tool_confluence_get_page_CheckLate(params, reply) ==
    LET page_id == Get(params, "page_id", PyNone)
    IN IF ~page_id.ok THEN Did(<< >>, page_id)
       ELSE Did(<<confluence_request("GET",
                      "/content/" \o Format(page_id.v)
                          \o "?expand=body.storage,space,version",
                      PyNone)>>,
                Bind(Response(reply), LAMBDA response :
                     IF ~Truthy(page_id.v)
                     THEN Ok(PyDict([error |-> PyStr("page_id is required")]))
                     ELSE Ok(UpstreamError(response))))

tool_confluence_get_page(params, reply) ==
    LET page_id == Get(params, "page_id", PyNone)
        success(response) ==
            Bind(ResponseJson(response), LAMBDA page :
            MakeDict(<<"id", "title", "space", "version", "body">>,
                     <<Subscript(page, "id"),
                       Subscript(page, "title"),
                       Bind(Get(page, "space", EmptyDict), LAMBDA sp :
                            Get(sp, "key", PyNone)),
                       Bind(Get(page, "version", EmptyDict), LAMBDA ver :
                            Get(ver, "number", PyNone)),
                       Bind(Get(page, "body", EmptyDict), LAMBDA body :
                            Bind(Get(body, "storage", EmptyDict), LAMBDA st :
                                 Get(st, "value", PyStr(""))))>>))
    IN IF ~page_id.ok THEN Did(<< >>, page_id)
       ELSE IF ~Truthy(page_id.v)
       THEN Did(<< >>, Ok(PyDict([error |-> PyStr("page_id is required")])))
       ELSE Did(<<confluence_request("GET",
                      "/content/" \o Format(page_id.v)
                          \o "?expand=body.storage,space,version",
                      PyNone)>>,
                Bind(Response(reply), LAMBDA response :
                     IF response.status_code = 200 THEN success(response)
                     ELSE Ok(UpstreamError(response))))

(***************************************************************************)
(* The tool dispatcher: the name -> handler table.                         *)
(***************************************************************************)
\* the handler table with the entry of confluence_get_page left out
TOOL_HANDLERS_OneMissing ==
    [n \in {"jira_get_projects", "jira_search_issues", "jira_get_issue",
            "jira_create_issue", "confluence_get_spaces", "confluence_search"} |->
        "tool_" \o n]

TOOL_HANDLERS ==
    [n \in {"jira_get_projects", "jira_search_issues", "jira_get_issue",
            "jira_create_issue", "confluence_get_spaces", "confluence_search",
            "confluence_get_page"} |-> "tool_" \o n]

\* handler(parameters) for the handler the table gave
CallHandler(handler, parameters, reply) ==
    CASE handler = "tool_jira_get_projects" ->
            tool_jira_get_projects(parameters, reply)
      [] handler = "tool_jira_search_issues" ->
            tool_jira_search_issues(parameters, reply)
      [] handler = "tool_jira_get_issue" ->
            tool_jira_get_issue(parameters, reply)
      [] handler = "tool_jira_create_issue" ->
            tool_jira_create_issue(parameters, reply)
      [] handler = "tool_confluence_get_spaces" ->
            tool_confluence_get_spaces(parameters, reply)
      [] handler = "tool_confluence_search" ->
            tool_confluence_search(parameters, reply)
      [] handler = "tool_confluence_get_page" ->
            tool_confluence_get_page(parameters, reply)

(***************************************************************************)
(* The HTTP request handler.                                               *)
(***************************************************************************)
VARIABLES
    tools,      \* the module-level TOOLS list
    request,    \* the request handled last
    response,   \* the response written for it (sent = FALSE: none)
    escaped,    \* the exception that left the handler method, if any
    lookups,    \* handler-table lookups made for it
    invoked,    \* the handlers called for it, in order
    outcome,    \* how the handler call ended (called = FALSE: no call)
    upstream,   \* the upstream exchanges made for it: call and reply
    previous,   \* the method of the request handled before it
    listed      \* the body of the last tool listing served before it

\* the client program (solution.py)
VARIABLES
    pc,         \* where the client program stands
    call,       \* the MCPClient method it called last, with its arguments
    sent,       \* the HTTP requests that call sent, in order
    wire,       \* what came back over the connection for them
    returned,   \* what the call returned or raised (called = FALSE: no call)
    printed,    \* the lines the program printed in its last step
    trace       \* the MCPClient methods called so far in this run of main()

\* the listening socket of the server (HTTPServer.serve_forever)
VARIABLES
    arrivals,   \* the requests of the connections made so far, in order
    backlog,    \* the connections waiting to be accepted: indices of arrivals
    serving,    \* the connection whose handler is running (id = 0: none)
    answered    \* the connections that got their response

\* the process that imported github_tools.py (kata-08)
VARIABLES
    imported,        \* whether the module body has run
    GITHUB_TOKEN,    \* os.getenv("GITHUB_TOKEN") at import: None or a str
    GITHUB_BASE_URL, \* os.getenv("GITHUB_BASE_URL", ...) at import: a str
    _github_client,  \* the module-level client: None or the Github instance
    constructed,     \* the Github(...) constructor calls made so far, in order
    ghcall,          \* the function of the module called last, with its arguments
    ghout,           \* what that call returned or raised (called = FALSE: no call)
    api              \* the GitHub API calls made for it, in order

svars == <<tools, request, response, escaped, lookups, invoked, outcome,
           upstream, previous, listed>>
cvars == <<pc, call, sent, wire, returned, printed, trace>>
lvars == <<arrivals, backlog, serving, answered>>
gvars == <<imported, GITHUB_TOKEN, GITHUB_BASE_URL, _github_client, constructed,
           ghcall, ghout, api>>
vars == <<tools, request, response, escaped, lookups, invoked, outcome,
          upstream, previous, listed, pc, call, sent, wire, returned, printed,
          trace, arrivals, backlog, serving, answered, imported, GITHUB_TOKEN,
          GITHUB_BASE_URL, _github_client, constructed, ghcall, ghout, api>>

\* the position of the first character of s that is in chars (0: none)
FirstOf(s, chars) ==
    IF \E i \in 1..Len(s) : SubSeq(s, i, i) \in chars
    THEN CHOOSE i \in 1..Len(s) :
            /\ SubSeq(s, i, i) \in chars
            /\ \A k \in 1..(i - 1) : SubSeq(s, k, k) \notin chars
    ELSE 0
\* the position of the last "/" of s (0: none)
LastSlash(s) ==
    IF \E i \in 1..Len(s) : SubSeq(s, i, i) = "/"
    THEN CHOOSE i \in 1..Len(s) :
            /\ SubSeq(s, i, i) = "/"
            /\ \A k \in (i + 1)..Len(s) : SubSeq(s, k, k) # "/"
    ELSE 0
\* s up to, not including, position i (all of s when i = 0)
Before(s, i) == IF i = 0 THEN s ELSE SubSeq(s, 1, i - 1)

\* urlparse(target).path of a request target without a scheme: the network
\* location after a leading "//", then the fragment, the query and the
\* parameters of the last segment are split off
UrlPath(target) ==
    LET afterNetloc ==
            IF Len(target) >= 2 /\ SubSeq(target, 1, 2) = "//"
            THEN LET rest == SubSeq(target, 3, Len(target))
                     d == FirstOf(rest, {"/", "#", "?"})
                 IN IF d = 0 THEN "" ELSE SubSeq(rest, d, Len(rest))
            ELSE target
        noFragment == Before(afterNetloc, FirstOf(afterNetloc, {"#"}))
        noQuery == Before(noFragment, FirstOf(noFragment, {"?"}))
        tail == SubSeq(noQuery, LastSlash(noQuery) + 1, Len(noQuery))
        semi == FirstOf(tail, {";"})
    IN IF semi = 0 THEN noQuery
       ELSE SubSeq(noQuery, 1, LastSlash(noQuery) + semi - 1)

NoResponse == [sent |-> FALSE]
NoException == [raised |-> FALSE]
NotCalled == [called |-> FALSE]
Escaped(exc) == [exc |-> exc, raised |-> TRUE]
Called(out) == [out |-> out, called |-> TRUE]

\* _send_json(data, status): status line, the two headers, the encoded body
_send_json(data, status) ==
    [body |-> JsonBody(json_dumps(data)), status |-> status,
     sent |-> TRUE,
     headers |-> ("Content-Type" :> "application/json"
                  @@ "Access-Control-Allow-Origin" :> "*")]

\* what handling one request did
Handled(resp, esc, nlookups, handlers, out, calls) ==
    [response |-> resp, calls |-> calls, escaped |-> esc,
     lookups |-> nlookups, invoked |-> handlers, outcome |-> out]
\* a request answered without reaching the handler table
Answer(resp) == Handled(resp, NoException, 0, << >>, NotCalled, << >>)
\* a request whose handler method raised before answering
Crash(exc, nlookups) ==
    Handled(NoResponse, Escaped(exc), nlookups, << >>, NotCalled, << >>)

do_OPTIONS ==
    Answer([body |-> EmptyBody, status |-> 200,
            sent |-> TRUE,
            headers |-> ("Access-Control-Allow-Origin" :> "*"
                         @@ "Access-Control-Allow-Methods" :> "GET, POST, OPTIONS"
                         @@ "Access-Control-Allow-Headers" :> "Content-Type")])

\* do_GET listing the registry in reverse
do_GET_Reversed(target, registry) ==
    LET path == UrlPath(target)
        n == Len(registry.l)
    IN
    IF path = "/health"
    THEN Answer(_send_json(PyDict([status |-> PyStr("healthy"),
                                   service |-> PyStr("atlassian-mcp")]), 200))
    ELSE IF path = "/mcp/v1/tools"
    THEN Answer(_send_json(PyDict([tools |->
                    PyList([i \in 1..n |-> registry.l[n + 1 - i]])]), 200))
    ELSE Answer(_send_json(PyDict([error |-> PyStr("Not found")]), 404))

\* do_GET comparing the request target as written, query and all
do_GET_ExactTarget(target, registry) ==
    LET path == target IN
    IF path = "/health"
    THEN Answer(_send_json(PyDict([status |-> PyStr("healthy"),
                                   service |-> PyStr("atlassian-mcp")]), 200))
    ELSE IF path = "/mcp/v1/tools"
    THEN Answer(_send_json(PyDict([tools |-> registry]), 200))
    ELSE Answer(_send_json(PyDict([error |-> PyStr("Not found")]), 404))

do_GET(target, registry) ==
    LET path == UrlPath(target) IN
    IF path = "/health"
    THEN Answer(_send_json(PyDict([status |-> PyStr("healthy"),
                                   service |-> PyStr("atlassian-mcp")]), 200))
    ELSE IF path = "/mcp/v1/tools"
    THEN Answer(_send_json(PyDict([tools |-> registry]), 200))
    ELSE Answer(_send_json(PyDict([error |-> PyStr("Not found")]), 404))

\* Dispatch without the except clause: the handler's exception leaves do_POST
Dispatch_NoExcept(handler, parameters, reply) ==
    LET did == CallHandler(handler, parameters, reply)
    IN IF did.out.ok
       THEN Handled(_send_json(PyDict([error |-> PyNone,
                                       result |-> did.out.v]), 200),
                    NoException, 1, <<handler>>, Called(did.out), did.calls)
       ELSE Handled(NoResponse, Escaped(did.out.exc), 1, <<handler>>,
                    Called(did.out), did.calls)

\* Dispatch with an empty string, not None, as the error of a success
Dispatch_EmptyError(handler, parameters, reply) ==
    LET did == CallHandler(handler, parameters, reply)
        resp == IF did.out.ok
                THEN _send_json(PyDict([error |-> PyStr(""),
                                        result |-> did.out.v]), 200)
                ELSE _send_json(PyDict([error |-> PyStr(did.out.exc.msg),
                                        result |-> PyNone]), 500)
    IN Handled(resp, NoException, 1, <<handler>>, Called(did.out), did.calls)

\* Dispatch answering every handler return with the status of a fault
Dispatch_Always500(handler, parameters, reply) ==
    LET did == CallHandler(handler, parameters, reply)
        resp == IF did.out.ok
                THEN _send_json(PyDict([error |-> PyNone,
                                        result |-> did.out.v]), 500)
                ELSE _send_json(PyDict([error |-> PyStr(did.out.exc.msg),
                                        result |-> PyNone]), 500)
    IN Handled(resp, NoException, 1, <<handler>>, Called(did.out), did.calls)

\* the try block of do_POST: the handler call and the two envelopes
Dispatch(handler, parameters, reply) ==
    LET did == CallHandler(handler, parameters, reply)
        resp == IF did.out.ok
                THEN _send_json(PyDict([error |-> PyNone,
                                        result |-> did.out.v]), 200)
                ELSE _send_json(PyDict([error |-> PyStr(did.out.exc.msg),
                                        result |-> PyNone]), 500)
    IN Handled(resp, NoException, 1, <<handler>>, Called(did.out), did.calls)

\* the answer to a request without a tool name
NameRequired ==
    Answer(_send_json(PyDict([error |-> PyStr("Tool name is required")]), 400))

\* UnknownTool with a fixed text in place of the f-string
UnknownTool_FixedText(tool_name) ==
    Handled(_send_json(PyDict([error |-> PyStr("Unknown tool")]), 404),
            NoException, 1, << >>, NotCalled, << >>)

\* the answer to a request whose name the handler table does not hold
UnknownTool(tool_name) ==
    Handled(_send_json(PyDict([error |->
                PyStr("Unknown tool: " \o Format(tool_name))]), 404),
            NoException, 1, << >>, NotCalled, << >>)

\* the /mcp/v1/invoke branch of do_POST
Invoke(data, reply) ==
    LET tool_name == Get(data, "name", PyNone)
        parameters == Get(data, "parameters", EmptyDict)
    IN IF ~tool_name.ok THEN Crash(tool_name.exc, 0)
       ELSE IF ~Truthy(tool_name.v) THEN NameRequired
       ELSE IF ~Hashable(tool_name.v)
       THEN Crash(Exc("TypeError",
                      "unhashable type: '" \o TypeName(tool_name.v) \o "'"), 1)
       ELSE IF ~(tool_name.v.t = "str" /\ tool_name.v.s \in DOMAIN TOOL_HANDLERS)
       THEN UnknownTool(tool_name.v)
       ELSE Dispatch(TOOL_HANDLERS[tool_name.v.s], parameters.v, reply)

\* the except clause around json.loads in do_POST: only a JSONDecodeError
\* is answered, any other exception leaves do_POST
InvalidJson(exc) ==
    IF exc.type = "JSONDecodeError"
    THEN Answer(_send_json(PyDict([error |-> PyStr("Invalid JSON")]), 400))
    ELSE Crash(exc, 0)

\* do_POST for a request with the given Content-Length header ("invalid":
\* not an integer) and the body read from the socket
do_POST(target, content_length, body, reply) ==
    LET path == UrlPath(target)
        data == IF body.kind = "empty" THEN Ok(EmptyDict) ELSE json_loads(body)
    IN IF content_length = "invalid"
       THEN Crash(Exc("ValueError",
                      "invalid literal for int() with base 10: 'abc'"), 0)
       ELSE IF ~data.ok THEN InvalidJson(data.exc)
       ELSE IF path = "/mcp/v1/invoke" THEN Invoke(data.v, reply)
       ELSE Answer(_send_json(PyDict([error |-> PyStr("Not found")]), 404))

(***************************************************************************)
(* The requests the clients send and the replies the upstream gives.       *)
(***************************************************************************)
\* marks a member left out of a request object
Absent == [j |-> "absent"]
\* the object {"name": name, "parameters": parameters} without its absent members
RequestDoc(name, parameters) ==
    LET members == {m \in {<<"name", name>>, <<"parameters", parameters>>} :
                        m[2] # Absent}
    IN JObject([k \in {m[1] : m \in members} |->
                    (CHOOSE m \in members : m[1] = k)[2]])

\* the parameter objects sent to each tool
ParametersFor(name) ==
    CASE name = "jira_get_projects" ->
            {Absent, JNull}
      [] name = "jira_search_issues" ->
            {Absent, JNull,
             JObject([jql |-> JString("project = PROJ"), max_results |-> JNumber(5)]),
             JObject([max_results |-> JNumber(5), query |-> JString("status:open")]),
             JObject([jql |-> JNumber(5)])}
      [] name = "jira_get_issue" ->
            {Absent, JNull, JArray(<< >>),
             JObject([issue_key |-> JString("PROJ-1")]),
             JObject([issue_key |-> JString("")]),
             JObject([issue_key |-> JNull]),
             JObject([issue_key |-> JNumber(42)])}
      [] name = "jira_create_issue" ->
            {Absent, EmptyObject, JNull,
             JObject([summary |-> JString("Title")]),
             JObject([project_key |-> JString("PROJ")]),
             JObject([project_key |-> JString(""), summary |-> JString("Title")]),
             JObject([project_key |-> JString("PROJ"), summary |-> JString("Title")]),
             JObject([description |-> JString("Steps to reproduce"), project_key |-> JString("PROJ"),
                      summary |-> JString("Title"),
                      issue_type |-> JString("Bug")])}
      [] name = "confluence_get_spaces" ->
            {EmptyObject}
      [] name = "confluence_search" ->
            {Absent, EmptyObject, JNull,
             JObject([max_results |-> JNumber(3)]),
             JObject([query |-> JString("onboarding")]),
             JObject([max_results |-> JNumber(3), query |-> JString("team page")])}
      [] name = "confluence_get_page" ->
            {Absent, EmptyObject, JNull,
             JObject([page_id |-> JString("12345")]),
             JObject([page_id |-> JNumber(0)])}

\* name members that name no tool: absent, falsy, unknown, not a string
OtherNames ==
    {Absent, JNull, JString(""), JNumber(0), JBoolean(FALSE), JArray(<< >>),
     JString("does_not_exist"), JString("Jira_Get_Projects"), JNumber(7),
     JBoolean(TRUE), JArray(<<JString("jira_get_projects")>>),
     JObject([name |-> JString("jira_get_projects")])}

\* the bodies POSTed to the invoke route: no body, bytes that are not
\* UTF-8, text that is not JSON, documents that are not objects, and request
\* objects
Bodies ==
    {EmptyBody, UndecodableBody, MalformedBody}
    \cup {JsonBody(d) : d \in {JNull, JArray(<< >>), JNumber(5),
                               JString("jira_get_projects")}}
    \cup {JsonBody(RequestDoc(n, Absent)) : n \in OtherNames}
    \cup {JsonBody(RequestDoc(JString("does_not_exist"), EmptyObject))}
    \cup UNION {{JsonBody(RequestDoc(JString(n), p)) : p \in ParametersFor(n)} :
                    n \in DOMAIN TOOL_HANDLERS}

Request(method, target, content_length, body) ==
    [body |-> body, method |-> method,
     target |-> target, content_length |-> content_length]

GetTargets == {"/", "/health", "/mcp/v1/tools", "/mcp/v1/invoke",
               "/health?probe=1", "/mcp/v1/tools;v=1", "//health"}

\* the POST requests: every body to the invoke route; a few bodies to the
\* route written with a query, to another route, and under a Content-Length
\* header that is not an integer
PostRequests ==
    {Request("POST", "/mcp/v1/invoke", "valid", b) : b \in Bodies}
    \cup {Request("POST", "/mcp/v1/invoke?trace=1#top", "valid", b) :
            b \in {EmptyBody, MalformedBody,
                   JsonBody(RequestDoc(JString("does_not_exist"), Absent)),
                   JsonBody(RequestDoc(JString("jira_get_issue"), EmptyObject))}}
    \cup {Request("POST", "/mcp/v1/tools", "valid", b) :
            b \in {EmptyBody, MalformedBody, UndecodableBody, JsonBody(JNull),
                   JsonBody(RequestDoc(JString("jira_get_projects"), Absent))}}
    \cup {Request("POST", "/mcp/v1/invoke", "invalid", b) :
            b \in {EmptyBody,
                   JsonBody(RequestDoc(JString("jira_get_projects"), Absent))}}

\* upstream statuses: around the 2xx range, inside it, and errors
Statuses == {199, 200, 201, 204, 299, 300, 404}

\* an upstream body: its text (abbreviated where it is long; the connectors
\* only copy it) and what the text encodes
Body(text, body) == [text |-> text, body |-> body]
NoContent == Body("", EmptyBody)
HtmlError == Body("<html>Service Unavailable</html>", MalformedBody)
JsonError ==
    Body("{\"errorMessages\": [\"Issue does not exist\"]}",
         JsonBody(JObject([errorMessages |->
                    JArray(<<JString("Issue does not exist")>>)])))

JStatus(name) == JObject([name |-> JString(name)])
\* one issue record in the nested (fields) shape and in the flat shape
NestedIssue(key) ==
    JObject([fields |-> JObject([status |-> JStatus("Open"),
                                 summary |-> JString("Fix login"),
                                 issuetype |-> JStatus("Bug"),
                                 created |-> JString("2024-01-01"),
                                 updated |-> JString("2024-01-02"),
                                 priority |-> JStatus("High"),
                                 assignee |-> JNull]),
             key |-> JString(key)])
FlatIssue(key) ==
    JObject([status |-> JStatus("Open"), summary |-> JString("Fix login"),
             key |-> JString(key), issuetype |-> JString("Bug")])

\* the result bodies the upstream sends in answer to each connector: well
\* formed ones, and ones that lack what the connector reads
UpstreamBodies(handler) ==
    CASE handler = "tool_jira_get_projects" ->
            {Body("[]", JsonBody(JArray(<< >>))),
             Body("[{\"key\": \"PROJ\", \"name\": \"Project\", \"id\": \"10000\"}]",
                  JsonBody(JArray(<<JObject([name |-> JString("Project"),
                                             key |-> JString("PROJ"),
                                             id |-> JString("10000")])>>))),
             Body("[{\"key\": \"PROJ\"}]",
                  JsonBody(JArray(<<JObject([key |-> JString("PROJ")])>>)))}
      [] handler = "tool_jira_search_issues" ->
            {Body("{\"issues\": [<nested PROJ-1>, <nested PROJ-2>]}",
                  JsonBody(JObject([issues |->
                        JArray(<<NestedIssue("PROJ-1"), NestedIssue("PROJ-2")>>)]))),
             Body("{\"total\": 7, \"issues\": [<flat PROJ-1>]}",
                  JsonBody(JObject([issues |-> JArray(<<FlatIssue("PROJ-1")>>),
                                    total |-> JNumber(7)]))),
             Body("[<flat PROJ-1>, <flat PROJ-2>]",
                  JsonBody(JArray(<<FlatIssue("PROJ-1"), FlatIssue("PROJ-2")>>))),
             Body("[<nested PROJ-2>, <nested PROJ-1>]",
                  JsonBody(JArray(<<NestedIssue("PROJ-2"), NestedIssue("PROJ-1")>>))),
             Body("{\"issues\": [{\"key\": \"PROJ-1\", \"fields\": {}}]}",
                  JsonBody(JObject([issues |->
                        JArray(<<JObject([fields |-> EmptyObject,
                                          key |-> JString("PROJ-1")])>>)])))}
      [] handler = "tool_jira_get_issue" ->
            {Body("<nested PROJ-1>", JsonBody(NestedIssue("PROJ-1"))),
             Body("{\"key\": \"PROJ-1\", \"fields\": {<priority null>}}",
                  JsonBody(JObject([fields |-> JObject([status |-> JStatus("Open"),
                                            summary |-> JString("Fix login"),
                                            issuetype |-> JStatus("Bug"),
                                            created |-> JString("2024-01-01"),
                                            updated |-> JString("2024-01-02"),
                                            priority |-> JNull]),
                        key |-> JString("PROJ-1")])))}
      [] handler = "tool_jira_create_issue" ->
            {Body("{\"id\": \"10001\", \"key\": \"PROJ-2\", \"self\": \"https://example.atlassian.net/rest/api/3/issue/10001\"}",
                  JsonBody(JObject([
                        key |-> JString("PROJ-2"), id |-> JString("10001"),
                        self |-> JString("https://example.atlassian.net/rest/api/3/issue/10001")]))),
             Body("{\"id\": \"10001\"}",
                  JsonBody(JObject([id |-> JString("10001")])))}
      [] handler = "tool_confluence_get_spaces" ->
            {Body("{\"results\": [{\"key\": \"HR\", \"name\": \"People\", \"type\": \"global\", \"id\": 98}]}",
                  JsonBody(JObject([results |->
                        JArray(<<JObject([type |-> JString("global"),
                                          name |-> JString("People"),
                                          key |-> JString("HR"),
                                          id |-> JNumber(98)])>>)]))),
             Body("{}", JsonBody(EmptyObject)),
             Body("[]", JsonBody(JArray(<< >>)))}
      [] handler = "tool_confluence_search" ->
            {Body("{\"size\": 1, \"results\": [<page 12345 in HR>]}",
                  JsonBody(JObject([results |->
                        JArray(<<JObject([type |-> JString("page"),
                                          id |-> JString("12345"),
                                          title |-> JString("Onboarding"),
                                          _expandable |-> JObject([space |->
                                              JString("/rest/api/space/HR")])])>>), size |-> JNumber(1)]))),
             Body("{\"results\": [{\"id\": \"12345\"}]}",
                  JsonBody(JObject([results |->
                        JArray(<<JObject([id |-> JString("12345")])>>)])))}
      [] handler = "tool_confluence_get_page" ->
            {Body("{\"id\": \"12345\", \"title\": \"Onboarding\", <space, version, body>}",
                  JsonBody(JObject([body |-> JObject([storage |-> JObject([
                                        value |-> JString("<p>Welcome</p>")])]),
                                    version |-> JObject([number |-> JNumber(3)]),
                                    space |-> JObject([key |-> JString("HR")]),
                                    id |-> JString("12345"),
                                    title |-> JString("Onboarding")]))),
             Body("{\"title\": \"Onboarding\"}",
                  JsonBody(JObject([title |-> JString("Onboarding")])))}

\* a transport-level failure of requests.request()
ConnectionError ==
    Exc("ConnectionError", "Failed to establish a new connection: Connection refused")

\* the replies the upstream can give to a call made by `handler`
UpstreamReplies(handler) ==
    {TransportFailure(ConnectionError)}
    \cup {HttpReply(st, HtmlError.text, HtmlError.body) : st \in Statuses}
    \cup {HttpReply(404, JsonError.text, JsonError.body)}
    \cup {HttpReply(st, b.text, b.body) :
            st \in {200, 201, 204, 299}, b \in {NoContent} \cup UpstreamBodies(handler)}

(***************************************************************************)
(* The server as a state machine: one request is handled per step.         *)
(***************************************************************************)
Init ==
    /\ tools = TOOLS
    /\ request = Request("none", "", "valid", EmptyBody)
    /\ response = NoResponse
    /\ escaped = NoException
    /\ lookups = 0
    /\ invoked = << >>
    /\ outcome = NotCalled
    /\ upstream = << >>
    /\ previous = "none"
    /\ listed = EmptyBody
    /\ pc = "idle"
    /\ call = [op |-> "none"]
    /\ sent = << >>
    /\ wire = [reply |-> [kind |-> "silent"], peer |-> "none"]
    /\ returned = NotCalled
    /\ printed = << >>
    /\ trace = << >>
    /\ arrivals = << >>
    /\ backlog = << >>
    /\ serving = [id |-> 0]
    /\ answered = {}
    /\ imported = FALSE
    /\ GITHUB_TOKEN = PyNone
    /\ GITHUB_BASE_URL = ""
    /\ _github_client = PyNone
    /\ constructed = << >>
    /\ ghcall = [op |-> "none"]
    /\ ghout = NotCalled
    /\ api = << >>

\* Step with a handler that empties the registry once a tool was invoked
Step_WritesRegistry(req, handled, reply) ==
    /\ request' = req
    /\ response' = handled.response
    /\ escaped' = handled.escaped
    /\ lookups' = handled.lookups
    /\ invoked' = handled.invoked
    /\ outcome' = handled.outcome
    /\ upstream' = [i \in 1..Len(handled.calls) |->
                        [reply |-> reply, call |-> handled.calls[i]]]
    /\ previous' = request.method
    /\ listed' = IF request.method = "GET" /\ UrlPath(request.target) = "/mcp/v1/tools"
                 THEN response.body ELSE listed
    /\ tools' = IF handled.invoked # << >> THEN PyList(<< >>) ELSE tools

\* the server handles req as `handled` tells; reply answered its upstream calls
Step(req, handled, reply) ==
    /\ request' = req
    /\ response' = handled.response
    /\ escaped' = handled.escaped
    /\ lookups' = handled.lookups
    /\ invoked' = handled.invoked
    /\ outcome' = handled.outcome
    /\ upstream' = [i \in 1..Len(handled.calls) |->
                        [reply |-> reply, call |-> handled.calls[i]]]
    /\ previous' = request.method
    /\ listed' = IF request.method = "GET" /\ UrlPath(request.target) = "/mcp/v1/tools"
                 THEN response.body ELSE listed
    /\ UNCHANGED tools

OptionsRequest ==
    \E target \in {"*", "/mcp/v1/invoke"} :
        /\ Step(Request("OPTIONS", target, "valid", EmptyBody), do_OPTIONS,
                TransportFailure(ConnectionError))
        /\ UNCHANGED <<cvars, lvars, gvars>>

GetRequest ==
    \E target \in GetTargets :
        \E handled \in {do_GET(target, tools)} :
            /\ Step(Request("GET", target, "valid", EmptyBody), handled,
                    TransportFailure(ConnectionError))
            /\ UNCHANGED <<cvars, lvars, gvars>>

\* a POST: the upstream replies to the call the request leads to, if any
PostRequest ==
    \E req \in PostRequests :
        \E probe \in {do_POST(req.target, req.content_length, req.body,
                               TransportFailure(ConnectionError))} :
        \E reply \in IF probe.calls = << >>
                      THEN {TransportFailure(ConnectionError)}
                      ELSE UpstreamReplies(probe.invoked[1]) :
        \E handled \in {do_POST(req.target, req.content_length, req.body, reply)} :
              /\ Step(req, handled, reply)
              /\ UNCHANGED <<cvars, lvars, gvars>>

Next == OptionsRequest \/ GetRequest \/ PostRequest

Spec == Init /\ [][Next]_vars

(***************************************************************************)
(* The protocol client (solution.py): MCPClient and what the requests      *)
(* library gives it.                                                       *)
(***************************************************************************)
MCP_SERVER_URL == "http://localhost:8000"

\* requests.get/post without a timeout argument
NoTimeout == 0

\* the HTTP request one requests.get/post call sends
HttpRequest(method, path, timeout, json) ==
    [method |-> method, url |-> MCP_SERVER_URL \o path, json |-> json,
     path |-> path, timeout |-> timeout]

\* what comes back over the connection: nothing at all (the peer accepts and
\* stays silent), a transport failure, or an HTTP resp
Silent == [kind |-> "silent"]
Wire(status, reason, body) ==
    [kind |-> "http", body |-> body, status_code |-> status, reason |-> reason]

\* the exception classes derived from requests.exceptions.RequestException
RequestException ==
    {"ConnectionError", "JSONDecodeError", "ConnectTimeout", "ReadTimeout",
     "HTTPError"}
IsRequestException(exc) == exc.type \in RequestException

\* a call that never returns (no timeout was given and the peer is silent)
NeverReturns == [ok |-> FALSE, exc |-> Exc("(never returns)", "")]

\* outcome of requests.get/post: the resp, a raised exception, or no
\* return at all
Send(req, w) ==
    CASE w.kind = "raise" -> [ok |-> FALSE, exc |-> w.exc]
      [] w.kind = "silent" ->
            IF req.timeout = NoTimeout THEN NeverReturns
            ELSE Raise("ReadTimeout",
                       "HTTPConnectionPool(host='localhost', port=8000): Read timed out. (read timeout="
                          \o NatStr(req.timeout) \o ")")
      [] w.kind = "http" -> Ok(w)

\* response.raise_for_status(): HTTPError for the 4xx and 5xx statuses
raise_for_status(resp, url) ==
    IF resp.status_code >= 400 /\ resp.status_code < 500
    THEN Raise("HTTPError", NatStr(resp.status_code) \o " Client Error: "
                               \o resp.reason \o " for url: " \o url)
    ELSE IF resp.status_code >= 500 /\ resp.status_code < 600
    THEN Raise("HTTPError", NatStr(resp.status_code) \o " Server Error: "
                               \o resp.reason \o " for url: " \o url)
    ELSE Ok(PyNone)

\* what a client function did: the requests it sent, how it ended, and the
\* lines it printed
Ran(requests, out, lines) == [out |-> out, sent |-> requests, printed |-> lines]

\* health_check returning True for every answer, whatever its status
health_check_AnyAnswer(w) ==
    LET req == HttpRequest("GET", "/health", 5, Absent)
        try == Bind(Send(req, w), LAMBDA resp : Ok(PyBool(TRUE)))
    IN Ran(<<req>>,
           IF ~try.ok /\ IsRequestException(try.exc) THEN Ok(PyBool(FALSE))
           ELSE try,
           << >>)

\* MCPClient.health_check()
health_check(w) ==
    LET req == HttpRequest("GET", "/health", 5, Absent)
        try == Bind(Send(req, w), LAMBDA resp :
                    Ok(PyBool(resp.status_code = 200)))
    IN Ran(<<req>>,
           IF ~try.ok /\ IsRequestException(try.exc) THEN Ok(PyBool(FALSE))
           ELSE try,
           << >>)

\* list_tools catching connection errors only
list_tools_CatchConnectionOnly(w) ==
    LET req == HttpRequest("GET", "/mcp/v1/tools", NoTimeout, Absent)
        try == Bind(Send(req, w), LAMBDA resp :
               Bind(raise_for_status(resp, req.url), LAMBDA checked :
               Bind(ResponseJson(resp), LAMBDA data :
               Get(data, "tools", PyList(<< >>)))))
    IN IF ~try.ok /\ try.exc.type = "ConnectionError"
       THEN Ran(<<req>>, Ok(PyList(<< >>)),
                <<"Error listing tools: " \o try.exc.msg>>)
       ELSE Ran(<<req>>, try, << >>)

\* list_tools reading the listing under the key "tool"
list_tools_WrongKey(w) ==
    LET req == HttpRequest("GET", "/mcp/v1/tools", NoTimeout, Absent)
        try == Bind(Send(req, w), LAMBDA resp :
               Bind(raise_for_status(resp, req.url), LAMBDA checked :
               Bind(ResponseJson(resp), LAMBDA data :
               Get(data, "tool", PyList(<< >>)))))
    IN IF ~try.ok /\ IsRequestException(try.exc)
       THEN Ran(<<req>>, Ok(PyList(<< >>)),
                <<"Error listing tools: " \o try.exc.msg>>)
       ELSE Ran(<<req>>, try, << >>)

\* MCPClient.list_tools()
list_tools(w) ==
    LET req == HttpRequest("GET", "/mcp/v1/tools", NoTimeout, Absent)
        try == Bind(Send(req, w), LAMBDA resp :
               Bind(raise_for_status(resp, req.url), LAMBDA checked :
               Bind(ResponseJson(resp), LAMBDA data :
               Get(data, "tools", PyList(<< >>)))))
    IN IF ~try.ok /\ IsRequestException(try.exc)
       THEN Ran(<<req>>, Ok(PyList(<< >>)),
                <<"Error listing tools: " \o try.exc.msg>>)
       ELSE Ran(<<req>>, try, << >>)

\* invoke catching the HTTPError of raise_for_status only
invoke_CatchHTTPErrorOnly(tool_name, parameters, w) ==
    LET req == HttpRequest("POST", "/mcp/v1/invoke", 30,
                   json_dumps(PyDict([name |-> tool_name,
                                      parameters |-> IF Truthy(parameters)
                                                     THEN parameters
                                                     ELSE EmptyDict])))
        try == Bind(Send(req, w), LAMBDA resp :
               Bind(raise_for_status(resp, req.url), LAMBDA checked :
               ResponseJson(resp)))
    IN Ran(<<req>>,
           IF ~try.ok /\ try.exc.type = "HTTPError"
           THEN Ok(PyDict([error |-> PyStr(try.exc.msg), result |-> PyNone]))
           ELSE try,
           << >>)

\* MCPClient.invoke(tool_name, parameters)
invoke(tool_name, parameters, w) ==
    LET req == HttpRequest("POST", "/mcp/v1/invoke", 30,
                   json_dumps(PyDict([name |-> tool_name,
                                      parameters |-> IF Truthy(parameters)
                                                     THEN parameters
                                                     ELSE EmptyDict])))
        try == Bind(Send(req, w), LAMBDA resp :
               Bind(raise_for_status(resp, req.url), LAMBDA checked :
               ResponseJson(resp)))
    IN Ran(<<req>>,
           IF ~try.ok /\ IsRequestException(try.exc)
           THEN Ok(PyDict([error |-> PyStr(try.exc.msg), result |-> PyNone]))
           ELSE try,
           << >>)

(***************************************************************************)
(* The demo functions.  Each runs to its end or to the first exception;    *)
(* what it printed up to there stays printed.                              *)
(***************************************************************************)
\* the effect of a statement: the lines it printed and how it ended
Effect(lines, out) == [out |-> out, printed |-> lines]
\* print(line), where evaluating the line may raise
Echo(line) ==
    IF line.ok THEN Effect(<<line.v>>, Ok(PyNone)) ELSE Effect(<< >>, line)
\* an expression of the statement raised
Fail(out) == Effect(<< >>, out)

\* statements run in order, up to the first that raises
RECURSIVE RunAll(_)
RunAll(effects) ==
    IF effects = << >> THEN Effect(<< >>, Ok(PyNone))
    ELSE IF ~Head(effects).out.ok THEN Head(effects)
    ELSE LET rest == RunAll(Tail(effects))
         IN Effect(Head(effects).printed \o rest.printed, rest.out)

\* for x in v: body(x)
ForEach(v, body(_)) ==
    LET items == Iterate(v) IN
    IF ~items.ok THEN Fail(items)
    ELSE RunAll([i \in 1..Len(items.v) |-> body(items.v[i])])

\* s[:n] of a value
Slice(v, n) ==
    CASE v.t = "str" -> Ok(PyStr(SubSeq(v.s, 1, IF Len(v.s) < n THEN Len(v.s) ELSE n)))
      [] v.t = "list" -> Ok(PyList(SubSeq(v.l, 1, IF Len(v.l) < n THEN Len(v.l) ELSE n)))
      [] OTHER -> Raise("TypeError",
                        "'" \o TypeName(v) \o "' object is not subscriptable")

\* len(v)
PyLen(v) ==
    CASE v.t = "str" -> Ok(Len(v.s))
      [] v.t = "list" -> Ok(Len(v.l))
      [] v.t = "dict" -> Ok(Cardinality(DOMAIN v.d))
      [] OTHER -> Raise("TypeError",
                        "object of type '" \o TypeName(v) \o "' has no len()")

\* a demo function: the header it prints, the one client call it makes, and
\* what it does with the value the call returned
Demo(header, ran, body(_)) ==
    LET rest == IF ran.out.ok THEN body(ran.out.v) ELSE Fail(ran.out)
    IN Ran(ran.sent, rest.out, header \o ran.printed \o rest.printed)

\* `if result.get("error"): print(...); return`, then the rest of the demo
ErrorOr(result, rest(_)) ==
    LET error == Get(result, "error", PyNone) IN
    IF ~error.ok THEN Fail(error)
    ELSE IF Truthy(error.v) THEN Echo(Ok("   Error: " \o Format(error.v)))
    ELSE rest(result)

demo_list_tools(w) ==
    LET show(tool) ==
            LET name == Get(tool, "name", PyStr("Unknown"))
                desc == Get(tool, "description", PyStr("No description"))
            IN IF ~name.ok THEN Fail(name)
               ELSE IF ~desc.ok THEN Fail(desc)
               ELSE Effect(<<"   - " \o Format(name.v), "     " \o Format(desc.v)>>,
                           Ok(PyNone))
        body(tools_) ==
            IF ~Truthy(tools_)
            THEN Echo(Ok("   No tools found (is the server running?)"))
            ELSE ForEach(tools_, show)
    IN Demo(<<"--- Available MCP Tools ---">>, list_tools(w), body)

demo_jira_projects(w) ==
    LET show(proj) ==
            Echo(Bind(Subscript(proj, "key"), LAMBDA key :
                 Bind(Subscript(proj, "name"), LAMBDA name :
                 Ok("   - [" \o Format(key) \o "] " \o Format(name)))))
        listing(result) ==
            LET projects == Bind(Get(result, "result", EmptyDict), LAMBDA r :
                                 Get(r, "projects", PyList(<< >>)))
            IN IF ~projects.ok THEN Fail(projects)
               ELSE IF Truthy(projects.v) THEN ForEach(projects.v, show)
               ELSE Echo(Ok("   No projects found"))
        body(result) == ErrorOr(result, listing)
    IN Demo(<<"--- Jira Projects ---">>,
            invoke(PyStr("jira_get_projects"), PyNone, w), body)

demo_jira_search(w) ==
    LET jql == "assignee = currentUser() ORDER BY updated DESC"
        show(issue) ==
            RunAll(<<
                Echo(Bind(Subscript(issue, "key"), LAMBDA key :
                     Bind(Subscript(issue, "summary"), LAMBDA summary :
                     Bind(Slice(summary, 50), LAMBDA short :
                     Ok("   - [" \o Format(key) \o "] " \o Format(short)))))),
                Echo(Bind(Subscript(issue, "status"), LAMBDA status :
                     Bind(Subscript(issue, "type"), LAMBDA type :
                     Ok("     Status: " \o Format(status) \o ", Type: "
                           \o Format(type)))))>>)
        listing(result) ==
            LET data == Get(result, "result", EmptyDict)
                issues == Bind(data, LAMBDA d : Get(d, "issues", PyList(<< >>)))
                total == Bind(data, LAMBDA d : Get(d, "total", PyInt(0)))
                count == Bind(issues, LAMBDA i : PyLen(i))
            IN IF ~issues.ok THEN Fail(issues)
               ELSE IF ~count.ok THEN Fail(count)
               ELSE RunAll(<<
                        Echo(Ok("   Found " \o Format(total.v)
                                   \o " issues (showing first "
                                   \o NatStr(count.v) \o "):")),
                        ForEach(issues.v, show)>>)
        body(result) == ErrorOr(result, listing)
    IN Demo(<<"--- Jira Issue Search ---", "   JQL: " \o jql>>,
            invoke(PyStr("jira_search_issues"),
                   PyDict([jql |-> PyStr(jql), max_results |-> PyInt(5)]), w),
            body)

demo_confluence_spaces(w) ==
    LET show(space) ==
            Echo(Bind(Subscript(space, "key"), LAMBDA key :
                 Bind(Subscript(space, "name"), LAMBDA name :
                 Bind(Subscript(space, "type"), LAMBDA type :
                 Ok("   - [" \o Format(key) \o "] " \o Format(name)
                       \o " (" \o Format(type) \o ")")))))
        listing(result) ==
            LET spaces == Bind(Get(result, "result", EmptyDict), LAMBDA r :
                               Get(r, "spaces", PyList(<< >>)))
            IN IF ~spaces.ok THEN Fail(spaces)
               ELSE IF Truthy(spaces.v) THEN ForEach(spaces.v, show)
               ELSE Echo(Ok("   No spaces found"))
        body(result) == ErrorOr(result, listing)
    IN Demo(<<"--- Confluence Spaces ---">>,
            invoke(PyStr("confluence_get_spaces"), PyNone, w), body)

demo_confluence_search(w) ==
    LET query == "Benefits"
        show(page) ==
            Echo(Bind(Get(page, "space", PyStr("???")), LAMBDA space :
                 Bind(Subscript(page, "title"), LAMBDA title :
                 Ok("   - " \o Format(title) \o " (Space: " \o Format(space)
                       \o ")"))))
        listing(result) ==
            LET data == Get(result, "result", EmptyDict)
                pages == Bind(data, LAMBDA d : Get(d, "pages", PyList(<< >>)))
                total == Bind(data, LAMBDA d : Get(d, "total", PyInt(0)))
                count == Bind(pages, LAMBDA p : PyLen(p))
            IN IF ~pages.ok THEN Fail(pages)
               ELSE IF ~count.ok THEN Fail(count)
               ELSE RunAll(<<
                        Echo(Ok("   Found " \o Format(total.v)
                                   \o " pages (showing first "
                                   \o NatStr(count.v) \o "):")),
                        ForEach(pages.v, show)>>)
        body(result) == ErrorOr(result, listing)
    IN Demo(<<"--- Confluence Search ---", "   Query: " \o query>>,
            invoke(PyStr("confluence_search"),
                   PyDict([max_results |-> PyInt(5), query |-> PyStr(query)]), w),
            body)

\* main() up to its health check: the banner, the check, and the report of
\* a missing server; its outcome here is the value of the check
main_connect(w) ==
    LET ran == health_check(w)
        banner == <<" Kata 07: Atlassian MCP Server - Solution",
                    "1. Connecting to MCP server at " \o MCP_SERVER_URL \o "...">>
    IN IF ~ran.out.ok THEN Ran(ran.sent, ran.out, banner)
       ELSE IF ~Truthy(ran.out.v)
       THEN Ran(ran.sent, ran.out,
                banner \o <<"   ERROR: MCP server is not running!",
                            "   Please start the server first:",
                            "   $ python mcp_server.py",
                            "   Then run this script again.">>)
       ELSE Ran(ran.sent, ran.out, banner \o <<"   Connected!">>)

(***************************************************************************)
(* The client program as a state machine: one MCPClient call per step,     *)
(* made by main() and its demo functions or by other calling code, against *)
(* whatever is at MCP_SERVER_URL in that moment.                           *)
(***************************************************************************)
\* the reason phrases http.server sends with the statuses _send_json uses
Reason ==
    [st \in {200, 400, 404, 500} |->
        CASE st = 200 -> "OK" [] st = 400 -> "Bad Request"
          [] st = 404 -> "Not Found" [] st = 500 -> "Internal Server Error"]

Refused ==
    Exc("ConnectionError",
        "HTTPConnectionPool(host='localhost', port=8000): Max retries exceeded (Caused by NewConnectionError: [Errno 111] Connection refused)")
Unresolved ==
    Exc("ConnectionError",
        "HTTPConnectionPool(host='localhost', port=8000): Max retries exceeded (Caused by NameResolutionError: Failed to resolve 'localhost')")
Dropped ==
    Exc("ConnectionError",
        "('Connection aborted.', RemoteDisconnected('Remote end closed connection without response'))")

\* what the client meets when no MCP server answers at the URL
NoServer == {TransportFailure(Refused), TransportFailure(Unresolved), Silent}
\* the answers of a peer that is not the MCP server: a gateway in front of
\* it, another service on the port
OtherPeer ==
    {Wire(503, "Service Unavailable", MalformedBody),
     Wire(200, "OK", MalformedBody),
     Wire(200, "OK", JsonBody(EmptyObject)),
     Wire(200, "OK", JsonBody(JArray(<< >>))),
     Wire(304, "Not Modified", EmptyBody)}

\* what the client gets from the MCP server: the response it wrote, or a
\* closed connection when its handler raised before writing one
WireOf(handled) ==
    IF handled.response.sent
    THEN Wire(handled.response.status, Reason[handled.response.status],
              handled.response.body)
    ELSE TransportFailure(Dropped)

\* a call of an MCPClient method, made by function `by`
Call(op, tool_name, parameters, by) ==
    [parameters |-> parameters, tool_name |-> tool_name, op |-> op, by |-> by]

\* the calls main() makes, by the position of main() they are made at
MainCalls ==
    [at \in {"list_tools", "confluence_search", "jira_projects", "jira_search",
             "confluence_spaces"} |->
        CASE at = "list_tools" ->
                Call("list_tools", PyNone, PyNone, "demo_list_tools")
          [] at = "jira_projects" ->
                Call("invoke", PyStr("jira_get_projects"), PyNone,
                     "demo_jira_projects")
          [] at = "jira_search" ->
                Call("invoke", PyStr("jira_search_issues"),
                     PyDict([jql |-> PyStr("assignee = currentUser() ORDER BY updated DESC"),
                             max_results |-> PyInt(5)]),
                     "demo_jira_search")
          [] at = "confluence_spaces" ->
                Call("invoke", PyStr("confluence_get_spaces"), PyNone,
                     "demo_confluence_spaces")
          [] at = "confluence_search" ->
                Call("invoke", PyStr("confluence_search"),
                     PyDict([max_results |-> PyInt(5), query |-> PyStr("Benefits")]),
                     "demo_confluence_search")]

\* the position of main() after the step made at `at`
After ==
    [at \in DOMAIN MainCalls |->
        CASE at = "list_tools" -> "jira_projects"
          [] at = "jira_projects" -> "jira_search"
          [] at = "jira_search" -> "confluence_spaces"
          [] at = "confluence_spaces" -> "confluence_search"
          [] at = "confluence_search" -> "done"]

\* the calls other calling code makes on an MCPClient
CallerCalls ==
    {Call("health_check", PyNone, PyNone, "caller"),
     Call("list_tools", PyNone, PyNone, "caller")}
    \cup {Call("invoke", a[1], a[2], "caller") : a \in {
            <<PyStr("jira_get_projects"), PyNone>>,
            <<PyStr("jira_search_issues"),
              PyDict([max_results |-> PyInt(5), query |-> PyStr("status:open")])>>,
            <<PyStr("jira_search_issues"), PyDict([jql |-> PyInt(5)])>>,
            <<PyStr("jira_get_issue"), EmptyDict>>,
            <<PyStr("jira_get_issue"), PyDict([issue_key |-> PyStr("PROJ-1")])>>,
            <<PyStr("jira_create_issue"), PyDict([summary |-> PyStr("Title")])>>,
            <<PyStr("confluence_get_page"), PyDict([page_id |-> PyStr("12345")])>>,
            <<PyStr("does_not_exist"), PyNone>>,
            <<PyStr(""), PyNone>>,
            <<PyNone, PyNone>>,
            <<PyList(<<PyStr("jira_get_projects")>>), PyNone>>}}

\* the function that makes call c, run against what comes back as w
Program(c, w) ==
    CASE c.by = "main" -> main_connect(w)
      [] c.by = "demo_list_tools" -> demo_list_tools(w)
      [] c.by = "demo_jira_projects" -> demo_jira_projects(w)
      [] c.by = "demo_jira_search" -> demo_jira_search(w)
      [] c.by = "demo_confluence_spaces" -> demo_confluence_spaces(w)
      [] c.by = "demo_confluence_search" -> demo_confluence_search(w)
      [] c.by = "caller" /\ c.op = "health_check" -> health_check(w)
      [] c.by = "caller" /\ c.op = "list_tools" -> list_tools(w)
      [] c.by = "caller" /\ c.op = "invoke" ->
            invoke(c.tool_name, c.parameters, w)

\* the MCP server is not running: its process holds nothing
ServerDown ==
    /\ tools' = TOOLS
    /\ request' = Request("none", "", "valid", EmptyBody)
    /\ response' = NoResponse
    /\ escaped' = NoException
    /\ lookups' = 0
    /\ invoked' = << >>
    /\ outcome' = NotCalled
    /\ upstream' = << >>
    /\ previous' = "none"
    /\ listed' = EmptyBody

\* an entry of the trace: the method called, and whether the function that
\* called it went on (for the health check: whether it returned True)
Entry(op, passed) == [op |-> op, passed |-> passed]

\* call c is made and comes back with w from `peer`; the program goes on at
\* to(ran) with the trace log(ran), ran being what the function that made
\* the call did
Runs(c, w, peer, to(_), log(_)) ==
    \E ran \in {Program(c, w)} :
    /\ call' = c
    /\ sent' = ran.sent
    /\ wire' = [reply |-> w, peer |-> peer]
    /\ returned' = Called(ran.out)
    /\ printed' = ran.printed
    /\ pc' = to(ran)
    /\ trace' = log(ran)
    /\ UNCHANGED <<lvars, gvars>>

\* the request as the MCP server reads it
Received(req) ==
    Request(req.method, req.path, "valid",
            IF req.json = Absent THEN EmptyBody ELSE JsonBody(req.json))

\* the handler method of the MCP server for request srv
Handle(srv, registry, reply) ==
    IF srv.method = "GET" THEN do_GET(srv.target, registry)
    ELSE do_POST(srv.target, srv.content_length, srv.body, reply)

\* call c is made: nothing answers, another peer answers, or the MCP server
\* handles the request and its upstream answers the call that leads to
Exchange(c, to(_), log(_)) ==
    \E srv \in {Received(Program(c, Silent).sent[1])} :
    \E probe \in {Handle(srv, tools, TransportFailure(ConnectionError))} :
        \/ \E w \in NoServer : Runs(c, w, "none", to, log) /\ ServerDown
        \/ \E w \in OtherPeer : Runs(c, w, "other", to, log) /\ ServerDown
        \/ \E reply \in IF probe.calls = << >>
                         THEN {TransportFailure(ConnectionError)}
                         ELSE UpstreamReplies(probe.invoked[1]) :
           \E handled \in {Handle(srv, tools, reply)} :
                /\ Step(srv, handled, reply)
                /\ Runs(c, WireOf(handled), "mcp_server", to, log)

\* main() without the return after the report of a missing server
MainStart_GoesOn ==
    /\ pc \in {"done", "idle", "crashed", "blocked"}
    /\ LET c == Call("health_check", PyNone, PyNone, "main")
           to(ran) == IF ~ran.out.ok THEN "crashed" ELSE "list_tools"
           log(ran) == <<Entry(c.op, ran.out.ok /\ Truthy(ran.out.v))>>
       IN Exchange(c, to, log)

\* main() starts: the health check, and the end of the run if it fails
MainStart ==
    /\ pc \in {"done", "idle", "crashed", "blocked"}
    /\ LET c == Call("health_check", PyNone, PyNone, "main")
           to(ran) == IF ~ran.out.ok THEN "crashed"
                      ELSE IF Truthy(ran.out.v) THEN "list_tools"
                      ELSE "done"
           log(ran) == <<Entry(c.op, ran.out.ok /\ Truthy(ran.out.v))>>
       IN Exchange(c, to, log)

\* main() goes on with the demo function that is next
DemoStep ==
    /\ pc \in DOMAIN MainCalls
    /\ LET to(ran) == IF ran.out.ok THEN After[pc]
                      ELSE IF ran.out = NeverReturns THEN "blocked"
                      ELSE "crashed"
           log(ran) == Append(trace, Entry(MainCalls[pc].op, ran.out.ok))
       IN Exchange(MainCalls[pc], to, log)

\* other calling code makes one call
CallerStep ==
    /\ pc \in {"done", "idle", "crashed", "blocked"}
    /\ \E c \in CallerCalls :
            Exchange(c, LAMBDA ran : "idle", LAMBDA ran : << >>)

ClientNext == MainStart \/ DemoStep \/ CallerStep

ClientSpec == Init /\ [][ClientNext]_vars

(***************************************************************************)
(* The server process under load (mcp_server.py main): HTTPServer handles  *)
(* one connection at a time, and the others wait in the listen queue.      *)
(***************************************************************************)
MaxConnections == 3

\* the requests the connections carry
LiveRequests ==
    {Request("GET", "/health", "valid", EmptyBody),
     Request("POST", "/mcp/v1/invoke", "valid",
             JsonBody(RequestDoc(JString("does_not_exist"), Absent))),
     Request("POST", "/mcp/v1/invoke", "valid",
             JsonBody(RequestDoc(JString("jira_get_projects"), Absent))),
     Request("POST", "/mcp/v1/invoke", "valid",
             JsonBody(RequestDoc(JString("confluence_get_spaces"), Absent)))}

\* requests.request(method=, url=, headers=, auth=, json=): no timeout is
\* passed, so the call waits for the upstream's answer as long as it takes
RequestTimeout == NoTimeout

\* what the upstream does with a request: it answers, or it accepts the
\* connection and sends nothing
UpstreamBehaviours == {"silent", "answers"}

\* a client connects and sends its request; the kernel queues the connection
Connect ==
    /\ Len(arrivals) < MaxConnections
    /\ \E req \in LiveRequests :
            /\ arrivals' = Append(arrivals, req)
            /\ backlog' = Append(backlog, Len(arrivals) + 1)
    /\ UNCHANGED <<svars, cvars, gvars, serving, answered>>

\* serve_forever accepts the connection at the head of the queue and runs
\* its handler: to the response if the request leads to no upstream call,
\* into requests.request otherwise
Accept ==
    /\ serving.id = 0
    /\ backlog # << >>
    /\ backlog' = Tail(backlog)
    /\ \E id \in {Head(backlog)} :
       \E probe \in {Handle(arrivals[id], tools, TransportFailure(ConnectionError))} :
            \/ /\ probe.calls = << >>
               /\ Step(arrivals[id], probe, TransportFailure(ConnectionError))
               /\ answered' = answered \cup {id}
               /\ UNCHANGED serving
            \/ /\ probe.calls # << >>
               /\ \E does \in UpstreamBehaviours :
                    serving' = [handler |-> probe.invoked[1], upstream |-> does,
                                id |-> id, timeout |-> RequestTimeout]
               /\ UNCHANGED <<svars, answered>>
    /\ UNCHANGED <<cvars, gvars, arrivals>>

\* the upstream answers the call of the running handler, which returns; the
\* response is written and the server is free for the next connection
UpstreamAnswers ==
    /\ serving.id # 0
    /\ serving.upstream = "answers"
    /\ \E reply \in UpstreamReplies(serving.handler) :
       \E handled \in {Handle(arrivals[serving.id], tools, reply)} :
            Step(arrivals[serving.id], handled, reply)
    /\ answered' = answered \cup {serving.id}
    /\ serving' = [id |-> 0]
    /\ UNCHANGED <<cvars, gvars, arrivals, backlog>>

LiveNext == Connect \/ Accept \/ UpstreamAnswers

\* the server runs whenever it can, and an upstream that answers does so
LiveSpec ==
    Init /\ [][LiveNext]_vars /\ WF_vars(Accept) /\ WF_vars(UpstreamAnswers)

(***************************************************************************)
(* The GitHub tools (kata-08 github_tools.py).  The GitHub API behind the  *)
(* PyGithub client is the environment: every call on the client or on a    *)
(* repository gets an outcome chosen nondeterministically (a value, a      *)
(* GithubException with a status and a data payload, another exception).   *)
(***************************************************************************)
\* an object of the PyGithub library: its class and its attributes
Object(cls, attrs) == [t |-> "object", a |-> attrs, cls |-> cls]

\* v.name
Attr(v, name) ==
    IF v.t = "object" /\ name \in DOMAIN v.a THEN Ok(v.a[name])
    ELSE Raise("AttributeError",
               "'" \o TypeName(v) \o "' object has no attribute '" \o name \o "'")

\* the text of a payload: repr(v) as str(e.data) shows it, or json.dumps(v)
\* as str(e) shows it
RECURSIVE Render(_, _)
Render(v, as_json) ==
    LET quote_mark == IF as_json THEN "\"" ELSE "'"
        RECURSIVE Joined(_)
        Joined(texts) ==
            IF texts = << >> THEN ""
            ELSE IF Len(texts) = 1 THEN texts[1]
            ELSE texts[1] \o ", " \o Joined(Tail(texts))
    IN CASE v.t = "str"  -> quote_mark \o v.s \o quote_mark
         [] v.t = "list" ->
                "[" \o Joined([i \in 1..Len(v.l) |-> Render(v.l[i], as_json)]) \o "]"
         [] v.t = "dict" ->
                LET keys == KeySeq(DOMAIN v.d) IN
                "{" \o Joined([i \in 1..Len(keys) |->
                                quote_mark \o keys[i].s \o quote_mark \o ": "
                                    \o Render(v.d[keys[i].s], as_json)]) \o "}"
         [] v.t = "None" -> IF as_json THEN "null" ELSE "None"
         [] v.t = "bool" -> IF as_json THEN (IF v.b THEN "true" ELSE "false")
                            ELSE Format(v)
         [] OTHER -> Format(v)

\* s.lower(): the string is halved until single characters are left
RECURSIVE Lower(_)
Lower(s) ==
    LET capitals == "ABCDEFGHIJKLMNOPQRSTUVWXYZ"
        small == "abcdefghijklmnopqrstuvwxyz"
        half == Len(s) \div 2
    IN IF s = "" THEN ""
       ELSE IF Len(s) = 1
       THEN IF \E i \in 1..26 : SubSeq(capitals, i, i) = s
            THEN LET i == CHOOSE k \in 1..26 : SubSeq(capitals, k, k) = s
                 IN SubSeq(small, i, i)
            ELSE s
       ELSE Lower(SubSeq(s, 1, half)) \o Lower(SubSeq(s, half + 1, Len(s)))

\* github.GithubException(status, data): str(e) is the status and the
\* payload as JSON text
GithubException(status, data) ==
    [type |-> "GithubException",
     msg |-> IntStr(status) \o " " \o Render(data, TRUE),
     status |-> status, data |-> data]

\* the exception classes derived from ValueError that the calls can raise
ValueErrors == {"UnicodeDecodeError", "ValueError"}

\* an f-string: its parts are evaluated left to right, the first exception
\* propagates, and the values are formatted and joined
FString(parts) ==
    LET bad == FirstRaise(parts)
        RECURSIVE Joined(_)
        Joined(rest) ==
            IF rest = << >> THEN ""
            ELSE Format(Head(rest).v) \o Joined(Tail(rest))
    IN IF ~bad.ok THEN bad ELSE Ok(PyStr(Joined(parts)))
\* a literal part of an f-string
Lit(s) == Ok(PyStr(s))

\* the constructor call Github(**kwargs): the instance it returns is a new
\* object, told from the others by the number of the call that made it
Github(kwargs, made) == Object("Github", [id |-> Len(made) + 1, kwargs |-> kwargs])

\* what get_github_client() did: its outcome, the module-level client after
\* it, and the constructor calls made so far
Setup(out, client, made) == [out |-> out, constructed |-> made, client |-> client]

\* get_github_client() testing the token against None only
get_github_client_NoneOnly(client, token, base_url, made) ==
    IF client # PyNone THEN Setup(Ok(client), client, made)
    ELSE IF token = PyNone
    THEN Setup(Raise("ValueError",
                     "GITHUB_TOKEN environment variable is required. "
                        \o "Create a token at https://github.com/settings/tokens with 'repo' scope."),
               client, made)
    ELSE LET kwargs == IF base_url # "https://api.github.com"
                       THEN [base_url |-> PyStr(base_url), login_or_token |-> token]
                       ELSE [login_or_token |-> token]
             instance == Github(kwargs, made)
         IN Setup(Ok(instance), instance, Append(made, kwargs))

\* get_github_client() returning a new client without keeping it
get_github_client_NotKept(client, token, base_url, made) ==
    IF client # PyNone THEN Setup(Ok(client), client, made)
    ELSE IF ~Truthy(token)
    THEN Setup(Raise("ValueError",
                     "GITHUB_TOKEN environment variable is required. "
                        \o "Create a token at https://github.com/settings/tokens with 'repo' scope."),
               client, made)
    ELSE LET kwargs == IF base_url # "https://api.github.com"
                       THEN [base_url |-> PyStr(base_url), login_or_token |-> token]
                       ELSE [login_or_token |-> token]
             instance == Github(kwargs, made)
         IN Setup(Ok(instance), client, Append(made, kwargs))

\* get_github_client(), given the module-level client, token and base URL
get_github_client(client, token, base_url, made) ==
    IF client # PyNone THEN Setup(Ok(client), client, made)
    ELSE IF ~Truthy(token)
    THEN Setup(Raise("ValueError",
                     "GITHUB_TOKEN environment variable is required. "
                        \o "Create a token at https://github.com/settings/tokens with 'repo' scope."),
               client, made)
    ELSE LET kwargs == IF base_url # "https://api.github.com"
                       THEN [base_url |-> PyStr(base_url), login_or_token |-> token]
                       ELSE [login_or_token |-> token]
             instance == Github(kwargs, made)
         IN Setup(Ok(instance), instance, Append(made, kwargs))

\* one call on the client or the repository: the method, its arguments, and
\* the outcome the environment `world` gives this method
ApiCall(method, kwargs, world) ==
    Did(<<[out |-> world[method], method |-> method, kwargs |-> kwargs]>>,
        world[method])
\* a step that calls nothing
Pure(out) == Did(<< >>, out)
\* `next` applied to the value of `did`, after the calls of `did`; or the
\* exception `did` ended with
Then(did, next(_)) ==
    IF did.out.ok
    THEN LET more == next(did.out.v) IN Did(did.calls \o more.calls, more.out)
    ELSE did

\* e.data.get('message', default)
Message(e, default) == Get(e.data, "message", PyStr(default))

\* the clauses `except ValueError` and `except Exception` that end every tool
OtherException(e) ==
    IF e.type \in ValueErrors THEN Ok(PyStr("Configuration error: " \o e.msg))
    ELSE Ok(PyStr("Unexpected error: " \o e.type \o ": " \o e.msg))

\* a tool's try statement: what the body returned, or what the except
\* clause that matches the exception returns or raises
Guarded(did, on_github(_)) ==
    Did(did.calls,
        IF did.out.ok THEN did.out
        ELSE IF did.out.exc.type = "GithubException" THEN on_github(did.out.exc)
        ELSE OtherException(did.out.exc))

\* github_create_branch(repo_full_name, branch_name, base_branch), the
\* client setup having ended as `setup`
github_create_branch(repo_full_name, branch_name, base_branch, setup, world) ==
    LET on_github(e) ==
            CASE e.status = 401 ->
                    Lit("Error: Invalid GitHub token. Check your GITHUB_TOKEN.")
              [] e.status = 403 ->
                    FString(<<Lit("Error: Permission denied. Token may lack 'repo' scope. "),
                              Message(e, "")>>)
              [] e.status = 404 ->
                    Lit("Error: Repository '" \o repo_full_name \o "' or branch '"
                            \o base_branch \o "' not found.")
              [] e.status = 422 ->
                    FString(<<Lit("Error: Branch '" \o branch_name \o "' may already exist. "),
                              Message(e, "")>>)
              [] OTHER ->
                    FString(<<Lit("GitHub API error (" \o IntStr(e.status) \o "): "),
                              Message(e, e.msg)>>)
    IN Guarded(
        Then(Pure(setup), LAMBDA gh :
        Then(ApiCall("get_repo", <<repo_full_name>>, world), LAMBDA repo :
        Then(ApiCall("get_git_ref", <<"heads/" \o base_branch>>, world), LAMBDA base_ref :
        Then(Pure(Bind(Attr(base_ref, "object"), LAMBDA obj : Attr(obj, "sha"))),
             LAMBDA base_sha :
        Then(ApiCall("create_git_ref",
                     [ref |-> "refs/heads/" \o branch_name, sha |-> base_sha], world),
             LAMBDA made :
        Pure(FString(<<Lit("Branch created successfully!\n"),
                       Lit("Repository: " \o repo_full_name \o "\n"),
                       Lit("Branch: " \o branch_name \o "\n"),
                       Lit("Based on: " \o base_branch \o " (SHA: "),
                       Slice(base_sha, 8), Lit(")")>>))))))),
        on_github)

\* github_commit_file(repo_full_name, file_path, content, commit_message, branch)
github_commit_file(repo_full_name, file_path, content, commit_message, branch, setup, world) ==
    LET on_github(e) ==
            CASE e.status = 401 ->
                    Lit("Error: Invalid GitHub token. Check your GITHUB_TOKEN.")
              [] e.status = 403 ->
                    FString(<<Lit("Error: Permission denied. "), Message(e, "")>>)
              [] e.status = 404 ->
                    Lit("Error: Repository '" \o repo_full_name \o "' or branch '"
                            \o branch \o "' not found.")
              [] e.status = 409 ->
                    FString(<<Lit("Error: Conflict - file may have been modified. "),
                              Message(e, "")>>)
              [] OTHER ->
                    FString(<<Lit("GitHub API error (" \o IntStr(e.status) \o "): "),
                              Message(e, e.msg)>>)
        \* the inner try block: get_contents, then update_file
        update ==
            Then(ApiCall("get_contents", [path |-> file_path, ref |-> branch], world),
                 LAMBDA existing_file :
            Then(Pure(Attr(existing_file, "sha")), LAMBDA sha :
            Then(ApiCall("update_file",
                         [content |-> content, path |-> file_path, sha |-> sha,
                          branch |-> branch, message |-> commit_message], world),
                 LAMBDA result :
            Pure(Ok([result |-> result, action |-> "updated"])))))
        \* its except clause: create_file on status 404, the exception again otherwise
        commit ==
            IF ~update.out.ok /\ update.out.exc.type = "GithubException"
                /\ update.out.exc.status = 404
            THEN Then(Did(update.calls, Ok(PyNone)), LAMBDA absent :
                 Then(ApiCall("create_file",
                              [content |-> content, path |-> file_path,
                               branch |-> branch, message |-> commit_message], world),
                      LAMBDA result :
                 Pure(Ok([result |-> result, action |-> "created"]))))
            ELSE update
    IN Guarded(
        Then(Pure(setup), LAMBDA gh :
        Then(ApiCall("get_repo", <<repo_full_name>>, world), LAMBDA repo :
        Then(commit, LAMBDA done :
        Then(Pure(Bind(Subscript(done.result, "commit"), LAMBDA c : Attr(c, "sha"))),
             LAMBDA commit_sha :
        Pure(FString(<<Lit("File " \o done.action \o " successfully!\n"),
                       Lit("Repository: " \o repo_full_name \o "\n"),
                       Lit("Path: " \o file_path \o "\n"),
                       Lit("Branch: " \o branch \o "\n"),
                       Lit("Commit: "), Slice(commit_sha, 8), Lit("\n"),
                       Lit("Message: " \o commit_message)>>)))))),
        on_github)

\* github_create_pr(repo_full_name, title, body, head_branch, base_branch)
github_create_pr(repo_full_name, title, body, head_branch, base_branch, setup, world) ==
    LET on_github(e) ==
            CASE e.status = 401 ->
                    Lit("Error: Invalid GitHub token. Check your GITHUB_TOKEN.")
              [] e.status = 403 ->
                    FString(<<Lit("Error: Permission denied. "), Message(e, "")>>)
              [] e.status = 404 ->
                    Lit("Error: Repository '" \o repo_full_name
                            \o "' not found or not accessible.")
              [] e.status = 422 ->
                    Bind(Message(e, ""), LAMBDA msg :
                        IF Contains(Lower(Render(e.data, FALSE)), "already exists")
                        THEN FString(<<Lit("Error: A pull request already exists for branch '"
                                            \o head_branch \o "'. "), Ok(msg)>>)
                        ELSE FString(<<Lit("Error: Could not create PR. "), Ok(msg)>>))
              [] OTHER ->
                    FString(<<Lit("GitHub API error (" \o IntStr(e.status) \o "): "),
                              Message(e, e.msg)>>)
    IN Guarded(
        Then(Pure(setup), LAMBDA gh :
        Then(ApiCall("get_repo", <<repo_full_name>>, world), LAMBDA repo :
        Then(ApiCall("create_pull",
                     [body |-> body, title |-> title, head |-> head_branch,
                      base |-> base_branch], world),
             LAMBDA pr :
        Pure(FString(<<Lit("Pull request created successfully!\n"),
                       Lit("PR #"), Attr(pr, "number"), Lit(": "), Attr(pr, "title"),
                       Lit("\n"),
                       Lit("URL: "), Attr(pr, "html_url"), Lit("\n"),
                       Lit("State: "), Attr(pr, "state"), Lit("\n"),
                       Lit("Head: " \o head_branch \o " -> Base: " \o base_branch)>>))))),
        on_github)

\* dt.strftime(format) for the two formats the tools use; dt is a datetime
strftime(dt, format) ==
    LET two(n) == IF n < 10 THEN "0" \o NatStr(n) ELSE NatStr(n)
        four(n) == IF n < 1000 THEN "0" \o NatStr(n) ELSE NatStr(n)
        date == four(dt.a.year) \o "-" \o two(dt.a.month) \o "-" \o two(dt.a.day)
    IN IF dt.t # "object" \/ dt.cls # "datetime"
       THEN Raise("AttributeError",
                  "'" \o TypeName(dt) \o "' object has no attribute 'strftime'")
       ELSE IF format = "%Y-%m-%d" THEN Ok(PyStr(date))
       ELSE Ok(PyStr(date \o " " \o two(dt.a.hour) \o ":" \o two(dt.a.minute)))

\* the entry github_list_prs appends for one pull request
PullEntry(pr) ==
    FString(<<Lit("#"), Attr(pr, "number"), Lit(": "), Attr(pr, "title"), Lit("\n"),
              Lit("   State: "), Attr(pr, "state"), Lit(" | Branch: "),
              Bind(Attr(pr, "head"), LAMBDA head : Attr(head, "ref")), Lit(" -> "),
              Bind(Attr(pr, "base"), LAMBDA base : Attr(base, "ref")), Lit("\n"),
              Lit("   Created: "),
              Bind(Attr(pr, "created_at"), LAMBDA at : strftime(at, "%Y-%m-%d")),
              Lit(" | URL: "), Attr(pr, "html_url")>>)

\* separator.join(texts)
RECURSIVE Join(_, _)
Join(separator, texts) ==
    IF texts = << >> THEN ""
    ELSE IF Len(texts) = 1 THEN texts[1]
    ELSE texts[1] \o separator \o Join(separator, Tail(texts))

\* github_list_prs(repo_full_name, state, max_results)
github_list_prs(repo_full_name, state, max_results, setup, world) ==
    LET on_github(e) ==
            CASE e.status = 401 ->
                    Lit("Error: Invalid GitHub token. Check your GITHUB_TOKEN.")
              [] e.status = 404 ->
                    Lit("Error: Repository '" \o repo_full_name \o "' not found.")
              [] OTHER ->
                    FString(<<Lit("GitHub API error (" \o IntStr(e.status) \o "): "),
                              Message(e, e.msg)>>)
        \* the for loop over prs, from `rest` on
        RECURSIVE Loop(_, _, _)
        Loop(rest, results, count) ==
            IF rest = << >> \/ count >= max_results THEN Ok(results)
            ELSE LET entry == PullEntry(Head(rest)) IN
                 IF ~entry.ok THEN entry
                 ELSE Loop(Tail(rest), Append(results, entry.v.s), count + 1)
    IN Guarded(
        Then(Pure(setup), LAMBDA gh :
        Then(ApiCall("get_repo", <<repo_full_name>>, world), LAMBDA repo :
        Then(ApiCall("get_pulls",
                     [state |-> state, sort |-> "updated", direction |-> "desc"], world),
             LAMBDA prs :
        Then(Pure(Bind(Iterate(prs), LAMBDA items : Loop(items, << >>, 0))),
             LAMBDA results :
        Pure(IF results = << >>
             THEN Lit("No " \o state \o " pull requests found in "
                        \o repo_full_name \o ".")
             ELSE Lit("Pull requests in " \o repo_full_name \o " (state: " \o state
                        \o "):\n" \o Join("\n\n", results))))))),
        on_github)

\* github_get_pr(repo_full_name, pr_number)
github_get_pr(repo_full_name, pr_number, setup, world) ==
    LET on_github(e) ==
            CASE e.status = 401 ->
                    Lit("Error: Invalid GitHub token. Check your GITHUB_TOKEN.")
              [] e.status = 404 ->
                    Lit("Error: PR #" \o IntStr(pr_number) \o " not found in '"
                            \o repo_full_name \o "'.")
              [] OTHER ->
                    FString(<<Lit("GitHub API error (" \o IntStr(e.status) \o "): "),
                              Message(e, e.msg)>>)
        in_state(reviews, state) ==
            Cardinality({i \in 1..Len(reviews) :
                            Attr(reviews[i], "state") = Ok(PyStr(state))})
        summary(reviews) ==
            IF reviews = << >> THEN "No reviews yet"
            ELSE NatStr(in_state(reviews, "APPROVED")) \o " approved, "
                    \o NatStr(in_state(reviews, "CHANGES_REQUESTED"))
                    \o " changes requested"
        time(pr, name) ==
            Bind(Attr(pr, name), LAMBDA at : strftime(at, "%Y-%m-%d %H:%M"))
    IN Guarded(
        Then(Pure(setup), LAMBDA gh :
        Then(ApiCall("get_repo", <<repo_full_name>>, world), LAMBDA repo :
        Then(ApiCall("get_pull", <<pr_number>>, world), LAMBDA pr :
        Then(ApiCall("get_reviews", << >>, world), LAMBDA got :
        Then(Pure(Iterate(got)), LAMBDA reviews :
        Pure(FString(<<
            Lit("Pull Request #"), Attr(pr, "number"), Lit(": "), Attr(pr, "title"),
            Lit("\n"),
            Lit("State: "), Attr(pr, "state"), Lit(" | Mergeable: "),
            Attr(pr, "mergeable"), Lit("\n"),
            Lit("Branch: "), Bind(Attr(pr, "head"), LAMBDA head : Attr(head, "ref")),
            Lit(" -> "), Bind(Attr(pr, "base"), LAMBDA base : Attr(base, "ref")),
            Lit("\n"),
            Lit("Author: "), Bind(Attr(pr, "user"), LAMBDA user : Attr(user, "login")),
            Lit("\n"),
            Lit("Created: "), time(pr, "created_at"), Lit("\n"),
            Lit("Updated: "), time(pr, "updated_at"), Lit("\n"),
            Lit("Reviews: " \o summary(reviews) \o "\n"),
            Lit("URL: "), Attr(pr, "html_url"), Lit("\n\n"),
            Lit("Description:\n"),
            Bind(Attr(pr, "body"), LAMBDA body :
                 Ok(IF Truthy(body) THEN body ELSE PyStr("(No description)")))
            >>))))))),
        on_github)

\* the bytes base64 text stands for, and the text bytes decode to
Base64(bytes) == [t |-> "str", b64 |-> bytes]
Utf8(text) == [text |-> text, decodes |-> TRUE]

\* base64.b64decode(v).decode("utf-8")
b64decode_utf8(v) ==
    IF v.t # "str"
    THEN Raise("TypeError",
               "argument should be a bytes-like object or ASCII string, not '"
                  \o TypeName(v) \o "'")
    ELSE IF "b64" \notin DOMAIN v
    THEN Raise("ValueError", "Incorrect padding")
    ELSE IF ~v.b64.decodes
    THEN Raise("UnicodeDecodeError",
               "'utf-8' codec can't decode byte 0xff in position 0: invalid start byte")
    ELSE Ok(PyStr(v.b64.text))

\* github_get_file(repo_full_name, file_path, branch)
github_get_file(repo_full_name, file_path, branch, setup, world) ==
    LET on_github(e) ==
            CASE e.status = 401 ->
                    Lit("Error: Invalid GitHub token. Check your GITHUB_TOKEN.")
              [] e.status = 404 ->
                    Lit("Error: File '" \o file_path \o "' not found in '"
                            \o repo_full_name \o "' on branch '" \o branch \o "'.")
              [] OTHER ->
                    FString(<<Lit("GitHub API error (" \o IntStr(e.status) \o "): "),
                              Message(e, e.msg)>>)
        decoded(file_content) ==
            Bind(Attr(file_content, "encoding"), LAMBDA encoding :
            Bind(Attr(file_content, "content"), LAMBDA raw :
                 IF encoding = PyStr("base64") THEN b64decode_utf8(raw) ELSE Ok(raw)))
        truncated(text) ==
            Bind(PyLen(text), LAMBDA n :
                 IF n > 10000
                 THEN Ok(PyStr(SubSeq(text.s, 1, 10000)
                                  \o "\n\n... [truncated, file too large]"))
                 ELSE Ok(text))
    IN Guarded(
        Then(Pure(setup), LAMBDA gh :
        Then(ApiCall("get_repo", <<repo_full_name>>, world), LAMBDA repo :
        Then(ApiCall("get_contents", [path |-> file_path, ref |-> branch], world),
             LAMBDA file_content :
        Then(Pure(Bind(decoded(file_content), truncated)), LAMBDA text :
        Pure(FString(<<Lit("File: " \o file_path \o " (branch: " \o branch \o ")\n"),
                       Lit("Size: "), Attr(file_content, "size"), Lit(" bytes\n"),
                       Lit("SHA: "),
                       Bind(Attr(file_content, "sha"), LAMBDA sha : Slice(sha, 8)),
                       Lit("\n"),
                       Lit("---\n"), Ok(text)>>)))))),
        on_github)

(***************************************************************************)
(* The environment of the GitHub tools: what the API calls return when     *)
(* they succeed, how they fail, and the calls made on the tools.           *)
(***************************************************************************)
Datetime(year, month, day, hour, minute) ==
    Object("datetime", [year |-> year, month |-> month, day |-> day,
                        hour |-> hour, minute |-> minute])

\* a pull request as the API returns it
PullRequest(number, title, head, body) ==
    Object("PullRequest",
           [body |-> body, title |-> PyStr(title), number |-> PyInt(number),
            head |-> Object("PullRequestPart", [ref |-> PyStr(head)]),
            base |-> Object("PullRequestPart", [ref |-> PyStr("main")]),
            state |-> PyStr("open"),
            user |-> Object("NamedUser", [login |-> PyStr("testuser")]),
            mergeable |-> PyBool(TRUE),
            created_at |-> Datetime(2024, 1, 15, 10, 0),
            updated_at |-> Datetime(2024, 1, 15, 12, 5),
            html_url |-> PyStr("https://github.com/owner/repo/pull/" \o NatStr(number))])

\* the pull requests of the repository, in the order get_pulls yields them
Pulls ==
    <<PullRequest(42, "Test PR", "feature-branch", PyStr("PR Description")),
      PullRequest(7, "Second PR", "feature-2", PyNone),
      PullRequest(1, "First PR", "feature-1", PyStr(""))>>

\* a file as get_contents returns it
ContentFile(encoding, content) ==
    Object("ContentFile", [content |-> content, size |-> PyInt(28),
                           sha |-> PyStr("old-sha-123"), encoding |-> encoding])

\* the GitHub API with every call succeeding
Succeeds ==
    [m \in {"get_repo", "get_git_ref", "create_git_ref", "get_contents",
            "update_file", "create_file", "create_pull", "get_pulls", "get_pull",
            "get_reviews"} |->
        CASE m = "get_repo" ->
                Ok(Object("Repository", [full_name |-> PyStr("owner/repo")]))
          [] m \in {"get_git_ref", "create_git_ref"} ->
                Ok(Object("GitRef",
                          [object |-> Object("GitObject",
                                             [sha |-> PyStr("abc123456789")])]))
          [] m = "get_contents" ->
                Ok(ContentFile(PyStr("base64"),
                               Base64(Utf8("# Test File\nThis is content."))))
          [] m = "update_file" ->
                Ok(PyDict([commit |-> Object("Commit", [sha |-> PyStr("new-sha-456")])]))
          [] m = "create_file" ->
                Ok(PyDict([commit |-> Object("Commit", [sha |-> PyStr("def456789")])]))
          [] m \in {"create_pull", "get_pull"} -> Ok(Pulls[1])
          [] m = "get_pulls" -> Ok(PyList(Pulls))
          [] m = "get_reviews" -> Ok(PyList(<< >>))]

\* the payloads of a GithubException: a mapping with a message, the
\* validation errors of a duplicate, an empty mapping, none
Mapping(message) == PyDict([message |-> PyStr(message)])
Duplicate ==
    PyDict([message |-> PyStr("Validation Failed"),
            errors |-> PyList(<<Mapping("A pull request already exists for owner:feature-branch.")>>)])

\* the ways a call on the API fails
Failures ==
    {[ok |-> FALSE, exc |-> GithubException(st, data)] :
        st \in {401, 403, 404, 409, 422, 500},
        data \in {Mapping("Reference already exists"), PyNone}}
    \cup {[ok |-> FALSE, exc |-> GithubException(422, Duplicate)],
          [ok |-> FALSE, exc |-> GithubException(422, Mapping("No commits between main and feature-branch"))],
          [ok |-> FALSE, exc |-> GithubException(404, EmptyDict)],
          [ok |-> FALSE, exc |-> GithubException(500, EmptyDict)],
          [ok |-> FALSE, exc |-> ConnectionError]}
\* the ways get_repo fails in the runs of every tool
RepoFailures ==
    {[ok |-> FALSE, exc |-> GithubException(404, Mapping("Not Found"))],
     [ok |-> FALSE, exc |-> GithubException(401, Mapping("Bad credentials"))],
     [ok |-> FALSE, exc |-> ConnectionError]}

\* Succeeds with the outcome of one of `methods` replaced by one of `outs`
Deviating(from, methods, outs) ==
    {[from EXCEPT ![m] = o] : m \in methods, o \in outs}

\* the environments each tool is run in
Worlds(op) ==
    CASE op = "github_create_branch" ->
            {Succeeds}
            \cup Deviating(Succeeds, {"get_repo"}, RepoFailures)
            \cup Deviating(Succeeds, {"get_git_ref", "create_git_ref"}, Failures)
      [] op = "github_commit_file" ->
            {Succeeds}
            \cup Deviating(Succeeds, {"get_repo"}, RepoFailures)
            \cup Deviating(Succeeds, {"get_contents", "update_file"}, Failures)
            \cup Deviating(Succeeds, {"get_contents"},
                           {Ok(PyList(<<ContentFile(PyStr("base64"), PyStr(""))>>))})
            \cup UNION {Deviating(absent, {"create_file"}, Failures \cup {Succeeds["create_file"]}) :
                    absent \in Deviating(Succeeds, {"get_contents"},
                        {[ok |-> FALSE, exc |-> GithubException(404, data)] :
                            data \in {EmptyDict, PyNone}})}
      [] op = "github_create_pr" ->
            {Succeeds}
            \cup Deviating(Succeeds, {"get_repo"}, RepoFailures)
            \cup Deviating(Succeeds, {"create_pull"}, Failures)
      [] op = "github_list_prs" ->
            Deviating(Succeeds, {"get_pulls"},
                      {Ok(PyList(SubSeq(Pulls, 1, n))) : n \in 0..Len(Pulls)}
                        \cup {Ok(PyNone)})
            \cup Deviating(Succeeds, {"get_repo"}, RepoFailures)
            \cup Deviating(Succeeds, {"get_pulls"}, Failures)
      [] op = "github_get_pr" ->
            {Succeeds}
            \cup Deviating(Succeeds, {"get_pull"}, {Ok(Pulls[2]), Ok(Pulls[3])})
            \cup Deviating(Succeeds, {"get_reviews"},
                    {Ok(PyList(<<Object("PullRequestReview", [state |-> PyStr("APPROVED")]),
                                 Object("PullRequestReview", [state |-> PyStr("COMMENTED")]),
                                 Object("PullRequestReview", [state |-> PyStr("APPROVED")])>>))})
            \cup Deviating(Succeeds, {"get_repo"}, RepoFailures)
            \cup Deviating(Succeeds, {"get_pull", "get_reviews"}, Failures)
      [] op = "github_get_file" ->
            {Succeeds}
            \cup Deviating(Succeeds, {"get_contents"},
                    {Ok(ContentFile(PyStr("base64"), Base64([decodes |-> FALSE]))),
                     Ok(ContentFile(PyStr("none"), PyStr(""))),
                     Ok(ContentFile(PyStr("none"), PyNone)),
                     Ok(PyList(<<ContentFile(PyStr("base64"), PyStr(""))>>))})
            \cup Deviating(Succeeds, {"get_repo"}, RepoFailures)
            \cup Deviating(Succeeds, {"get_contents"}, Failures)

\* a call of a function of the module with its arguments
ToolCall(op, args) == [args |-> args, op |-> op]

\* the calls made on the tools
ToolCalls ==
    {ToolCall("github_create_branch", <<"owner/repo", "new-branch", "main">>),
     ToolCall("github_commit_file",
              <<"owner/repo", "docs/test.md", "# Test content", "Add test file",
                "feature-branch">>),
     ToolCall("github_create_pr",
              <<"owner/repo", "Test PR", "PR Description", "feature-branch", "main">>),
     ToolCall("github_get_pr", <<"owner/repo", 42>>),
     ToolCall("github_get_file", <<"owner/repo", "docs/test.md", "main">>)}
    \cup {ToolCall("github_list_prs", <<"owner/repo", "open", max_results>>) :
            max_results \in {0, 1, 2, 10}}
    \cup {ToolCall("github_list_prs", <<"owner/repo", "all", 10>>)}

\* the tool call c made with the client setup ended as `setup`
RunTool(c, setup, world) ==
    CASE c.op = "github_create_branch" ->
            github_create_branch(c.args[1], c.args[2], c.args[3], setup, world)
      [] c.op = "github_commit_file" ->
            github_commit_file(c.args[1], c.args[2], c.args[3], c.args[4], c.args[5],
                               setup, world)
      [] c.op = "github_create_pr" ->
            github_create_pr(c.args[1], c.args[2], c.args[3], c.args[4], c.args[5],
                             setup, world)
      [] c.op = "github_list_prs" ->
            github_list_prs(c.args[1], c.args[2], c.args[3], setup, world)
      [] c.op = "github_get_pr" ->
            github_get_pr(c.args[1], c.args[2], setup, world)
      [] c.op = "github_get_file" ->
            github_get_file(c.args[1], c.args[2], c.args[3], setup, world)

(***************************************************************************)
(* The process that uses github_tools.py, as a state machine: the module   *)
(* is imported once, then its functions are called in any order.           *)
(***************************************************************************)
\* the module body runs: load_dotenv() and the two os.getenv calls
Import ==
    /\ ~imported
    /\ imported' = TRUE
    /\ GITHUB_TOKEN' \in {PyNone, PyStr(""), PyStr("test-token")}
    /\ GITHUB_BASE_URL' \in {"https://api.github.com",
                             "https://github.example.com/api/v3"}
    /\ UNCHANGED <<svars, cvars, lvars, _github_client, constructed, ghcall,
                   ghout, api>>

\* get_github_client() is called directly
GetClient ==
    /\ imported
    /\ \E did \in {get_github_client(_github_client, GITHUB_TOKEN, GITHUB_BASE_URL,
                                     constructed)} :
            /\ _github_client' = did.client
            /\ constructed' = did.constructed
            /\ ghcall' = ToolCall("get_github_client", << >>)
            /\ ghout' = Called(did.out)
            /\ api' = << >>
    /\ UNCHANGED <<svars, cvars, lvars, imported, GITHUB_TOKEN, GITHUB_BASE_URL>>

\* one of the six tools is called; the API answers its calls as `world` tells
CallTool ==
    /\ imported
    /\ \E c \in ToolCalls :
       \E world \in Worlds(c.op) :
       \E did \in {get_github_client(_github_client, GITHUB_TOKEN, GITHUB_BASE_URL,
                                     constructed)} :
       \E ran \in {RunTool(c, did.out, world)} :
            /\ _github_client' = did.client
            /\ constructed' = did.constructed
            /\ ghcall' = c
            /\ ghout' = Called(ran.out)
            /\ api' = ran.calls
    /\ UNCHANGED <<svars, cvars, lvars, imported, GITHUB_TOKEN, GITHUB_BASE_URL>>

GithubNext == Import \/ GetClient \/ CallTool

GithubSpec == Init /\ [][GithubNext]_vars

(***************************************************************************)
(* What the claims speak of.                                               *)
(***************************************************************************)
\* the request handled last is a POST to the invoke route that do_POST
\* could read (its Content-Length header is an integer)
IsInvoke ==
    /\ request.method = "POST"
    /\ request.content_length = "valid"
    /\ UrlPath(request.target) = "/mcp/v1/invoke"

\* the body of that request is a JSON object
HasObjectBody == request.body.kind = "json" /\ request.body.doc.j = "object"

\* member k of the request object (Absent when it is left out)
RequestMember(k) ==
    IF k \in DOMAIN request.body.doc.o THEN request.body.doc.o[k] ELSE Absent

\* the request names tool n
Names(n) == IsInvoke /\ HasObjectBody /\ RequestMember("name") = JString(n)

\* member k of the object in the response body; an absent member counts as null
ResponseMember(k) ==
    IF /\ response.sent
       /\ response.body.kind = "json"
       /\ response.body.doc.j = "object"
       /\ k \in DOMAIN response.body.doc.o
    THEN response.body.doc.o[k] ELSE JNull

Answered(status) == response.sent /\ response.status = status

\* the names of the tools in the registry
ToolNames == {TOOLS.l[i].d.name.s : i \in 1..Len(TOOLS.l)}
\* the names of the parameters the registry marks required for tool n
RequiredParameters(n) ==
    LET tool == CHOOSE x \in {TOOLS.l[i] : i \in 1..Len(TOOLS.l)} : x.d.name.s = n
    IN {tool.d.parameters.l[i].d.name.s :
            i \in {k \in 1..Len(tool.d.parameters.l) :
                        tool.d.parameters.l[k].d.required.b}}

\* the parameters member is absent or an object in which every parameter
\* the registry declares for tool n and the request supplies has the
\* declared type, and every required one is supplied and not empty
ValidParameters(n) ==
    LET p == RequestMember("parameters")
        tool == CHOOSE x \in {TOOLS.l[i] : i \in 1..Len(TOOLS.l)} : x.d.name.s = n
        declared == {tool.d.parameters.l[i].d : i \in 1..Len(tool.d.parameters.l)}
        supplied == IF p = Absent THEN {} ELSE DOMAIN p.o
    IN /\ p = Absent \/ p.j = "object"
       /\ \A d \in declared :
            /\ d.required.b => d.name.s \in supplied
            /\ d.name.s \in supplied =>
                    LET v == p.o[d.name.s] IN
                    IF d.type.s = "integer" THEN v.j = "number"
                    ELSE v.j = "string" /\ v.s # ""

(***************************************************************************)
(* The claims.                                                             *)
(***************************************************************************)
\* C1: an invoke request whose name is a non-empty string that is not a key
\* of the handler table is answered with HTTP 404 and a non-null error that
\* contains the name as written; no handler is invoked, no upstream request
\* is made, and no exception leaves do_POST.
C1_UnknownToolAnswered404 ==
    LET name == RequestMember("name") IN
    (/\ IsInvoke /\ HasObjectBody
     /\ name.j = "string" /\ name.s # ""
     /\ name.s \notin DOMAIN TOOL_HANDLERS)
    => /\ Answered(404)
       /\ ResponseMember("error").j = "string"
       /\ Contains(ResponseMember("error").s, name.s)
       /\ invoked = << >>
       /\ upstream = << >>
       /\ ~escaped.raised

\* an unknown tool was asked for and the request has been answered
C1_Witness ==
    /\ Names("does_not_exist")
    /\ Answered(404)
    /\ lookups = 1

\* C2: an invoke request whose body is not JSON (text that does not parse,
\* or bytes that are not text), or whose name is absent, null or empty, is
\* answered with HTTP 400, a non-null error and a null or absent result,
\* without a lookup in the handler table and without a handler call.
C2_BadRequestAnswered400 ==
    (/\ IsInvoke
     /\ \/ request.body.kind \in {"empty", "undecodable", "malformed"}
        \/ /\ HasObjectBody
           /\ RequestMember("name") \in {Absent, JNull, JString("")})
    => /\ Answered(400)
       /\ ResponseMember("error") # JNull
       /\ ResponseMember("result") = JNull
       /\ lookups = 0
       /\ invoked = << >>

\* C3 (as claimed): an invoke request that names a registered tool and
\* supplies valid parameters, the required ones included, is answered with
\* HTTP 200 and a non-null result.
C3_ValidRequestAnswered200 ==
    \A n \in ToolNames :
        (Names(n) /\ ValidParameters(n))
        => Answered(200) /\ ResponseMember("result") # JNull

\* C3 (amended): such a request is answered with HTTP 200 and a non-null
\* result whenever the handler returns, which it does for every upstream
\* status other than 200 (and 201); when the handler raises (the upstream
\* call fails, or a 200/201 response lacks what the connector reads) it is
\* answered with HTTP 500 and a null result.
C3_ValidRequestAnswered200UnlessHandlerRaises ==
    \A n \in ToolNames :
        (Names(n) /\ ValidParameters(n))
        => /\ outcome.called
           /\ Len(upstream) = 1
           /\ outcome.out.ok => Answered(200) /\ ResponseMember("result") # JNull
           /\ ~outcome.out.ok => Answered(500) /\ ResponseMember("result") = JNull
           /\ upstream[1].reply.kind = "raise" => ~outcome.out.ok
           /\ (/\ upstream[1].reply.kind = "http"
               /\ upstream[1].reply.status_code \notin {200, 201}) => outcome.out.ok

\* a valid request for an issue was answered from a well-formed upstream reply
C3_Witness ==
    /\ Names("jira_get_issue") /\ ValidParameters("jira_get_issue")
    /\ Len(upstream) = 1
    /\ upstream[1].reply.kind = "http"
    /\ upstream[1].reply.status_code = 200
    /\ Answered(200)
    /\ ResponseMember("result").j = "object"
    /\ "summary" \in DOMAIN ResponseMember("result").o

\* C4: when the handler raises, the request is answered with HTTP 500, a
\* null result and an error that is exactly the exception's message, and the
\* exception does not leave do_POST.
C4_HandlerExceptionAnswered500 ==
    (outcome.called /\ ~outcome.out.ok)
    => /\ Answered(500)
       /\ ResponseMember("result") = JNull
       /\ ResponseMember("error") = JString(outcome.out.exc.msg)
       /\ ~escaped.raised

\* the upstream call of a handler failed at transport level
C4_Witness ==
    /\ outcome.called /\ ~outcome.out.ok
    /\ Len(upstream) = 1
    /\ upstream[1].reply.kind = "raise"
    /\ outcome.out.exc = upstream[1].reply.exc
    /\ Answered(500)

\* C5: when a connector is called with a parameter mapping that omits a
\* parameter the registry marks required, it returns a mapping whose error
\* text contains that parameter's name, and makes no upstream request.
C5_MissingRequiredParameter ==
    \A n \in ToolNames : \A r \in RequiredParameters(n) :
        (/\ Names(n)
         /\ invoked = <<TOOL_HANDLERS[n]>>
         /\ RequestMember("parameters") # Absent
            => (/\ RequestMember("parameters").j = "object"
                /\ r \notin DOMAIN RequestMember("parameters").o))
        => /\ outcome.called /\ outcome.out.ok
           /\ "error" \in DOMAIN outcome.out.v.d
           /\ outcome.out.v.d["error"].t = "str"
           /\ Contains(outcome.out.v.d["error"].s, r)
           /\ upstream = << >>

\* the issue-creation connector was called without its project_key
C5_Witness ==
    /\ Names("jira_create_issue")
    /\ invoked = <<"tool_jira_create_issue">>
    /\ RequestMember("parameters").j = "object"
    /\ DOMAIN RequestMember("parameters").o = {"summary"}
    /\ outcome.called
    /\ upstream = << >>

\* C6: when the upstream answers a connector's request with a status
\* outside 200..299, the connector returns {error: <upstream body>,
\* status_code: <status>} without raising, and the request is answered with
\* HTTP 200, that mapping as result, and a null error.
C6_UpstreamErrorPassedThrough ==
    (/\ Len(upstream) = 1
     /\ upstream[1].reply.kind = "http"
     /\ upstream[1].reply.status_code \notin 200..299)
    => /\ outcome.called /\ outcome.out.ok
       /\ outcome.out.v = PyDict([status_code |-> PyInt(upstream[1].reply.status_code),
                                  error |-> PyStr(upstream[1].reply.text)])
       /\ Answered(200)
       /\ ResponseMember("result") =
            JObject([status_code |-> JNumber(upstream[1].reply.status_code),
                     error |-> JString(upstream[1].reply.text)])
       /\ ResponseMember("error") = JNull

\* the upstream answered 404 with a JSON error body and the request got 200
C6_Witness ==
    /\ Len(upstream) = 1
    /\ upstream[1].reply.kind = "http"
    /\ upstream[1].reply.status_code = 404
    /\ upstream[1].reply.text = JsonError.text
    /\ Answered(200)
    /\ ResponseMember("result").j = "object"

\* C7 (as claimed): a connector returns a mapping without an error key for
\* every upstream status in 200..299 and {error, status_code} for every
\* other status.
C7_PartitionOn2xx ==
    (/\ Len(upstream) = 1
     /\ upstream[1].reply.kind = "http")
    => /\ outcome.called /\ outcome.out.ok
       /\ upstream[1].reply.status_code \in 200..299
            => "error" \notin DOMAIN outcome.out.v.d
       /\ upstream[1].reply.status_code \notin 200..299
            => DOMAIN outcome.out.v.d = {"status_code", "error"}

\* C7 (amended): a connector takes status 200 alone (the issue-creation
\* connector: 200 and 201) for a success, and then returns a mapping without
\* an error key, or raises when the body lacks what it reads; for every
\* other status, the other 2xx statuses included, it returns
\* {error: <upstream body>, status_code: <status>}.
C7_PartitionOn200 ==
    (/\ Len(upstream) = 1
     /\ upstream[1].reply.kind = "http")
    => LET success == IF invoked = <<"tool_jira_create_issue">>
                      THEN {200, 201} ELSE {200}
           status == upstream[1].reply.status_code
       IN /\ outcome.called
          /\ (status \in success /\ outcome.out.ok)
                => "error" \notin DOMAIN outcome.out.v.d
          /\ status \notin success
                => /\ outcome.out.ok
                   /\ outcome.out.v =
                        PyDict([status_code |-> PyInt(status),
                                error |-> PyStr(upstream[1].reply.text)])

\* a connector other than issue creation got a 2xx status that is not 200
\* and returned the error mapping
C7_Witness ==
    /\ invoked = <<"tool_confluence_get_spaces">>
    /\ Len(upstream) = 1
    /\ upstream[1].reply.kind = "http"
    /\ upstream[1].reply.status_code = 204
    /\ outcome.called /\ outcome.out.ok
    /\ DOMAIN outcome.out.v.d = {"status_code", "error"}

\* C8: in every response to an invoke request exactly one of result and
\* error is non-null (an absent member counting as null), and when the
\* handler returns, result is its return value and error is null.
C8_ExactlyOneOfResultAndError ==
    (IsInvoke /\ response.sent)
    => /\ (ResponseMember("result") # JNull) # (ResponseMember("error") # JNull)
       /\ (outcome.called /\ outcome.out.ok)
            => /\ ResponseMember("result") = json_dumps(outcome.out.v)
               /\ ResponseMember("error") = JNull

\* a handler returned an upstream error mapping: the result carries it and
\* the envelope's error is null
C8_Witness ==
    /\ IsInvoke /\ Answered(200)
    /\ outcome.called /\ outcome.out.ok
    /\ "error" \in DOMAIN outcome.out.v.d
    /\ ResponseMember("result") # JNull
    /\ ResponseMember("error") = JNull

\* C9: invoking jira_create_issue with parameters {summary: "Title"} gives
\* an envelope whose error is "project_key and summary are required" and
\* whose result is null.
C9_MissingProjectKeyEnvelope ==
    (/\ Names("jira_create_issue")
     /\ RequestMember("parameters") = JObject([summary |-> JString("Title")]))
    => /\ ResponseMember("error") = JString("project_key and summary are required")
       /\ ResponseMember("result") = JNull

\* C10: whatever requests were handled before, GET /mcp/v1/tools is answered
\* with HTTP 200 and exactly the descriptors defined at startup, in their
\* order, the same body as the listing before it; the registry never changes.
C10_ListingIsStable ==
    /\ tools = TOOLS
    /\ (request.method = "GET" /\ UrlPath(request.target) = "/mcp/v1/tools")
        => /\ Answered(200)
           /\ response.body.kind = "json"
           /\ DOMAIN response.body.doc.o = {"tools"}
           /\ LET served == response.body.doc.o["tools"].a IN
              /\ Len(served) = Len(TOOLS.l)
              /\ \A i \in 1..Len(served) : served[i] = json_dumps(TOOLS.l[i])
           /\ listed # EmptyBody => response.body = listed

\* the tools are listed again, right after a POST
C10_Witness ==
    /\ request.method = "GET" /\ UrlPath(request.target) = "/mcp/v1/tools"
    /\ previous = "POST"
    /\ listed # EmptyBody
    /\ Answered(200)

\* what the request handler writes for req when the upstream answers its
\* call with reply: a function of the two and of the registry as defined
Respond(req, reply) ==
    CASE req.method = "OPTIONS" -> do_OPTIONS
      [] req.method = "GET" -> do_GET(req.target, TOOLS)
      [] req.method = "POST" ->
            do_POST(req.target, req.content_length, req.body, reply)

\* the request handled last is a GET whose path is /health
IsHealth == request.method = "GET" /\ UrlPath(request.target) = "/health"

\* C11: every GET /health is answered with HTTP 200 and the body
\* {"status": "healthy", "service": "atlassian-mcp"}, whatever was handled
\* before and however the upstream answered then; handling it looks up no
\* handler, makes no upstream request and raises nothing.
C11_HealthAlways200 ==
    IsHealth
    => /\ Answered(200)
       /\ response.body = JsonBody(JObject([status |-> JString("healthy"),
                                            service |-> JString("atlassian-mcp")]))
       /\ upstream = << >>
       /\ lookups = 0 /\ invoked = << >>
       /\ ~escaped.raised

\* a health request written with a query, handled right after a POST
C11_Witness ==
    /\ IsHealth
    /\ request.target = "/health?probe=1"
    /\ previous = "POST"
    /\ Answered(200)

CalledMethod(op) == returned.called /\ call.by = "caller" /\ call.op = op

\* the answer that came back for the call is an HTTP response / with a 2xx
\* status
GotResponse == wire.reply.kind = "http"
Got2xx ==
    GotResponse /\ wire.reply.status_code >= 200 /\ wire.reply.status_code < 300

\* the request names a tool of the handler table and a parameter the
\* registry marks required for it is left out or empty
RequiredMissing ==
    \E n \in ToolNames :
        /\ Names(n)
        /\ LET p == RequestMember("parameters") IN
           \E r \in RequiredParameters(n) :
                \/ p = Absent
                \/ p.j # "object"
                \/ r \notin DOMAIN p.o
                \/ ~Truthy(FromJson(p.o[r]))

C14_HealthCheckNeverRaises ==
    (returned.called /\ call.op = "health_check")
    => /\ returned.out.ok
       /\ returned.out.v.t = "bool"
       /\ ~GotResponse => returned.out.v = PyBool(FALSE)
       /\ returned.out.v = PyBool(TRUE)
            <=> (GotResponse /\ wire.reply.status_code = 200)

\* the health check of an address at which nothing listens
C14_Witness ==
    /\ CalledMethod("health_check")
    /\ wire.reply = TransportFailure(Refused)
    /\ returned.out = Ok(PyBool(FALSE))

\* C15: invoke raises nothing, whatever comes back; when no response arrives
\* (connection refused, name not resolved, connection closed by the server,
\* no answer within the timeout) it returns {"error": <the failure's
\* message>, "result": None}; and whenever nothing or the MCP server is at
\* the address, whatever the server does with the request, the value
\* returned is a mapping with both a result and an error key.
C15_InvokeNeverRaises ==
    CalledMethod("invoke")
    => /\ returned.out.ok
       /\ ~GotResponse
            => /\ returned.out.v.t = "dict"
               /\ DOMAIN returned.out.v.d = {"error", "result"}
               /\ returned.out.v.d["result"] = PyNone
               /\ returned.out.v.d["error"].t = "str"
               /\ returned.out.v.d["error"].s # ""
               /\ wire.reply.kind = "raise"
                    => returned.out.v.d["error"].s = wire.reply.exc.msg
       /\ wire.peer \in {"none", "mcp_server"}
            => /\ returned.out.v.t = "dict"
               /\ {"error", "result"} \subseteq DOMAIN returned.out.v.d

\* an invocation that met a refused connection
C15_Witness ==
    /\ CalledMethod("invoke")
    /\ wire.reply = TransportFailure(Refused)
    /\ returned.out = Ok(PyDict([error |-> PyStr(Refused.msg), result |-> PyNone]))

RECURSIVE Count(_, _)
Count(lines, line) ==
    IF lines = << >> THEN 0
    ELSE (IF Head(lines) = line THEN 1 ELSE 0) + Count(Tail(lines), line)

\* C17: in a run of main() the first request is the health check, every
\* list_tools and invoke call comes after a health check that returned
\* True, and a health check that did not return True ends the run: the
\* missing server is reported once and only the one /health request was sent.
C17_HealthCheckFirst ==
    /\ trace # << >> => trace[1].op = "health_check"
    /\ \A i \in 2..Len(trace) :
            /\ trace[i].op \in {"list_tools", "invoke"}
            /\ trace[1].passed
    /\ pc \in DOMAIN MainCalls => (trace # << >> /\ trace[1].passed)
    /\ (trace # << >> /\ ~trace[1].passed)
        => /\ pc = "done"
           /\ Len(trace) = 1
           /\ Len(sent) = 1 /\ sent[1].path = "/health"
           /\ Count(printed, "   ERROR: MCP server is not running!") = 1

\* a run of main() against an address at which nothing listens
C17_Witness ==
    /\ trace = <<Entry("health_check", FALSE)>>
    /\ wire.reply = TransportFailure(Refused)
    /\ pc = "done"

\* the demo functions that invoke a tool
InvokingDemos ==
    {"demo_jira_projects", "demo_jira_search", "demo_confluence_spaces",
     "demo_confluence_search"}

\* the invocation made in the last step failed: no response, a 4xx or 5xx
\* response, or a connector result that reports an error for a missing
\* required parameter (no upstream request) or for an upstream answer whose
\* status is not 2xx
InvocationFailed ==
    \/ ~GotResponse
    \/ wire.reply.status_code >= 400
    \/ /\ wire.peer = "mcp_server"
       /\ outcome.called /\ outcome.out.ok
       /\ outcome.out.v.t = "dict" /\ "error" \in DOMAIN outcome.out.v.d
       /\ \/ upstream = << >>
          \/ upstream[1].reply.status_code < 200
          \/ upstream[1].reply.status_code >= 300

\* the lines of a sequence that start with a given prefix
Starting(lines, prefix) ==
    {i \in 1..Len(lines) :
        /\ Len(lines[i]) >= Len(prefix)
        /\ SubSeq(lines[i], 1, Len(prefix)) = prefix}

\* C18 (as claimed): whenever the invocation a demo function makes fails,
\* the demo function prints the error text and returns without a result
\* listing and without an empty-result message: after its header it prints
\* the one line "   Error: ..." and nothing else.
C18_DemoPrintsErrorOnFailure ==
    (returned.called /\ call.by \in InvokingDemos /\ InvocationFailed)
    => /\ returned.out.ok
       /\ Cardinality(Starting(printed, "   Error: ")) = 1
       /\ Starting(printed, "   No ") = {}
       /\ Starting(printed, "   Found ") = {}
       /\ Starting(printed, "   - ") = {}

\* the connections that carry a POST to the invoke route
InvokeConnections ==
    {i \in 1..Len(arrivals) :
        /\ arrivals[i].method = "POST"
        /\ UrlPath(arrivals[i].target) = "/mcp/v1/invoke"}

\* C19: every POST /mcp/v1/invoke that reaches the server is eventually
\* answered, also when the upstream never answers the connector's request;
\* neither that request nor those queued behind it wait forever.
C19_EveryInvokeAnswered ==
    \A i \in 1..MaxConnections :
        (i \in InvokeConnections) ~> (i \in answered)

\* the records of an upstream search answer: the list itself, or the list
\* under its issues key
SearchRecords(doc) ==
    IF doc.j = "array" THEN doc.a
    ELSE IF "issues" \in DOMAIN doc.o THEN doc.o.issues.a
    ELSE << >>

\* a thing with a name, as the nested shape has for status and issue type
IsNamed(doc) == doc.j = "object" /\ "name" \in DOMAIN doc.o

\* an issue record in one of the two shapes: flat, or with its values under
\* a fields key
IsIssueRecord(rec) ==
    /\ rec.j = "object"
    /\ "fields" \in DOMAIN rec.o
        => /\ "key" \in DOMAIN rec.o
           /\ rec.o.fields.j = "object"
           /\ {"status", "summary", "issuetype", "created"}
                \subseteq DOMAIN rec.o.fields.o
           /\ IsNamed(rec.o.fields.o.status)
           /\ IsNamed(rec.o.fields.o.issuetype)

\* the upstream answered the search connector 200 with a list of issue
\* records, bare or under an issues key
SearchAnsweredWithRecords ==
    /\ IsInvoke
    /\ invoked = <<"tool_jira_search_issues">>
    /\ Len(upstream) = 1
    /\ upstream[1].reply.kind = "http"
    /\ upstream[1].reply.status_code = 200
    /\ upstream[1].reply.body.kind = "json"
    /\ LET doc == upstream[1].reply.body.doc IN
        /\ \/ doc.j = "array"
           \/ /\ doc.j = "object"
              /\ "issues" \in DOMAIN doc.o => doc.o.issues.j = "array"
        /\ \A i \in 1..Len(SearchRecords(doc)) :
                IsIssueRecord(SearchRecords(doc)[i])

\* C20: when the upstream answers the issue search 200 with N issue
\* records, flat or nested under fields, the list bare or under issues,
\* the result has exactly N entries {key, summary, status, type, created}
\* in upstream order, and total is the upstream's total when it reports
\* one and N otherwise.
C20_SearchNormalizesEveryRecord ==
    SearchAnsweredWithRecords
    => /\ Answered(200)
       /\ ResponseMember("error") = JNull
       /\ LET doc == upstream[1].reply.body.doc
              records == SearchRecords(doc)
              result == ResponseMember("result")
          IN /\ result.j = "object"
             /\ DOMAIN result.o = {"issues", "total"}
             /\ result.o.issues.j = "array"
             /\ Len(result.o.issues.a) = Len(records)
             /\ \A i \in 1..Len(records) :
                    LET entry == result.o.issues.a[i] IN
                    /\ entry.j = "object"
                    /\ DOMAIN entry.o = {"type", "status", "summary", "key", "created"}
                    /\ "key" \in DOMAIN records[i].o
                        => entry.o.key = records[i].o.key
             /\ result.o.total =
                    IF doc.j = "object" /\ "total" \in DOMAIN doc.o
                    THEN doc.o.total ELSE JNumber(Len(records))

\* two nested records and no reported total: total is 2, the list has two
\* entries
C20_Witness ==
    /\ SearchAnsweredWithRecords
    /\ upstream[1].reply.body.doc.j = "object"
    /\ "total" \notin DOMAIN upstream[1].reply.body.doc.o
    /\ Len(SearchRecords(upstream[1].reply.body.doc)) = 2
    /\ "fields" \in DOMAIN SearchRecords(upstream[1].reply.body.doc)[1].o
    /\ ResponseMember("result").o.total = JNumber(2)
    /\ Len(ResponseMember("result").o.issues.a) = 2

(***************************************************************************)
(* The listing as the client reads it.                                     *)
(***************************************************************************)
\* MCPClient.list_tools() was called by calling code and the MCP server
\* answered the request
ListedByServer ==
    /\ call.op = "list_tools"
    /\ call.by = "caller"
    /\ wire.peer = "mcp_server"

\* C21: the tool descriptors MCPClient.list_tools returns against a running
\* server equal the TOOLS list of the server, descriptor by descriptor in
\* the same order, with every name, description and parameter (name, type,
\* description, required) as the server holds it.
C21_ListToolsRoundTrip ==
    ListedByServer =>
        /\ returned = Called(Ok(tools))
        /\ tools = TOOLS
        /\ response.body = JsonBody(json_dumps(PyDict([tools |-> TOOLS])))

C21_Witness ==
    /\ ListedByServer
    /\ returned.called /\ returned.out.ok
    /\ Len(returned.out.v.l) = 7
    /\ returned.out.v.l[2].d["parameters"].l[1].d["required"] = PyBool(FALSE)
    /\ returned.out.v.l[3].d["name"] = PyStr("jira_get_issue")
    /\ returned.out.v.l[3].d["parameters"].l[1].d["required"] = PyBool(TRUE)

(***************************************************************************)
(* The GitHub client singleton.                                            *)
(***************************************************************************)
\* the keyword arguments get_github_client() passes to Github() under the
\* configuration of the process
ConfiguredArguments ==
    IF GITHUB_BASE_URL = "https://api.github.com"
    THEN [login_or_token |-> GITHUB_TOKEN]
    ELSE [base_url |-> PyStr(GITHUB_BASE_URL), login_or_token |-> GITHUB_TOKEN]

\* C22: a call of get_github_client with no client cached and GITHUB_TOKEN
\* unset or empty raises ValueError with a message that names GITHUB_TOKEN,
\* calls no Github constructor, and leaves the cached client None, so the
\* next call tests the token again.
C22_MissingTokenRaises ==
    [][(GetClient /\ _github_client = PyNone /\ ~Truthy(GITHUB_TOKEN)) =>
            /\ ghout'.called /\ ~ghout'.out.ok
            /\ ghout'.out.exc.type = "ValueError"
            /\ Contains(ghout'.out.exc.msg, "GITHUB_TOKEN")
            /\ constructed' = constructed
            /\ constructed' = << >>
            /\ _github_client' = PyNone]_vars

C22_Witness ==
    /\ ghcall.op = "get_github_client"
    /\ GITHUB_TOKEN = PyStr("")
    /\ ghout.called /\ ~ghout.out.ok
    /\ ghout.out.exc.type = "ValueError"
    /\ _github_client = PyNone
    /\ constructed = << >>

(***************************************************************************)
(* github_commit_file: update or create.                                   *)
(***************************************************************************)
\* the calls of `method` among the API calls of the last tool call
CallsOf(method) == SelectSeq(api, LAMBDA made : made.method = method)

\* github_commit_file was called last and reached get_contents
CommitReachedContents ==
    /\ ghcall.op = "github_commit_file"
    /\ CallsOf("get_contents") # << >>

\* how its get_contents call ended
ContentsOutcome == CallsOf("get_contents")[1].out
\* get_contents raised a GithubException with this status
ContentsRaised(status) ==
    /\ ~ContentsOutcome.ok
    /\ ContentsOutcome.exc.type = "GithubException"
    /\ ContentsOutcome.exc.status = status
\* get_contents returned a file
ContentsFound ==
    /\ ContentsOutcome.ok
    /\ ContentsOutcome.v.t = "object"

\* the call returned a string that holds `text`
Reported(text) ==
    /\ ghout.called /\ ghout.out.ok
    /\ ghout.out.v.t = "str"
    /\ Contains(ghout.out.v.s, text)

\* C23: github_commit_file chooses by the existence of the file on the
\* branch.  If get_contents returns the file: update_file is called once
\* with the sha of that file, create_file is not called, and the result of
\* a returning update_file is reported as "updated".  If get_contents
\* raises a 404 GithubException: create_file is called once, update_file is
\* not, and the result of a returning create_file is reported as "created".
\* On a GithubException of another status from get_contents: neither is
\* called and an error string is returned.
C23_UpdateOrCreateByExistence ==
    CommitReachedContents =>
        /\ ContentsFound =>
                /\ Len(CallsOf("update_file")) = 1
                /\ CallsOf("update_file")[1].kwargs.sha = ContentsOutcome.v.a.sha
                /\ CallsOf("create_file") = << >>
                /\ CallsOf("update_file")[1].out.ok => Reported("File updated successfully!")
        /\ ContentsRaised(404) =>
                /\ Len(CallsOf("create_file")) = 1
                /\ CallsOf("update_file") = << >>
                /\ CallsOf("create_file")[1].out.ok => Reported("File created successfully!")
        /\ (\E status \in {401, 403, 409, 422, 500} : ContentsRaised(status)) =>
                /\ CallsOf("update_file") = << >>
                /\ CallsOf("create_file") = << >>
                /\ Reported("rror")

\* C30: in github_commit_file, create_file is called only when get_contents
\* raised a 404: after a get_contents that returned, no outcome of
\* update_file leads to a create_file call.
C30_CreateOnlyWhenAbsent ==
    (CommitReachedContents /\ CallsOf("create_file") # << >>) => ContentsRaised(404)

(***************************************************************************)
(* The tools return strings.                                               *)
(***************************************************************************)
GithubTools ==
    {"github_create_branch", "github_commit_file", "github_create_pr",
     "github_list_prs", "github_get_pr", "github_get_file"}

\* the last API call of the last tool call was of `method` and raised a
\* GithubException with this status
LastRaised(method, status) ==
    /\ api # << >>
    /\ api[Len(api)].method = method
    /\ ~api[Len(api)].out.ok
    /\ api[Len(api)].out.exc.type = "GithubException"
    /\ api[Len(api)].out.exc.status = status

\* C24: each of the six GitHub tools returns a string and raises nothing,
\* whatever the GitHub calls do: a GithubException of any status with a
\* mapping, an empty mapping or no data, a ValueError from the client setup,
\* any other exception.  A 422 on the creation of a branch, or on the
\* creation of a pull request that the payload reports as a duplicate,
\* gives a string that says "already exist"; a 404 on the fetch of a file
\* gives a string that says "not found".
C24_ToolsReturnStrings ==
    ghcall.op \in GithubTools =>
        /\ ghout.called /\ ghout.out.ok
        /\ ghout.out.v.t = "str"
        /\ (ghcall.op = "github_create_branch" /\ LastRaised("create_git_ref", 422))
                => Contains(Lower(ghout.out.v.s), "already exist")
        /\ (/\ ghcall.op = "github_create_pr" /\ LastRaised("create_pull", 422)
            /\ api[Len(api)].out.exc.data = Duplicate)
                => Contains(Lower(ghout.out.v.s), "already exist")
        /\ (ghcall.op = "github_get_file" /\ LastRaised("get_contents", 404))
                => Contains(Lower(ghout.out.v.s), "not found")

(***************************************************************************)
(* github_list_prs: one entry per pull request.                            *)
(***************************************************************************)
\* github_list_prs was called last and the repository yielded pull requests
ListedPulls ==
    /\ ghcall.op = "github_list_prs"
    /\ CallsOf("get_pulls") # << >>
    /\ CallsOf("get_pulls")[1].out.ok
    /\ CallsOf("get_pulls")[1].out.v.t = "list"
\* the pull requests it yielded, in order
Yielded == CallsOf("get_pulls")[1].out.v.l

\* C25: github_list_prs returns one entry per pull request the repository
\* yields, in the order yielded, up to max_results entries and no more; it
\* returns the "No <state> pull requests found" message exactly when the
\* repository yields no pull request.
C25_OneEntryPerPullRequest ==
    ListedPulls =>
        LET max_results == ghcall.args[3]
            shown == IF Len(Yielded) < max_results THEN Len(Yielded) ELSE max_results
            none == "No " \o ghcall.args[2] \o " pull requests found in "
                        \o ghcall.args[1] \o "."
        IN /\ ghout.called /\ ghout.out.ok
           /\ (ghout.out.v.s = none) <=> (Yielded = << >>)
           /\ Yielded # << >> =>
                ghout.out.v.s =
                    "Pull requests in " \o ghcall.args[1] \o " (state: "
                        \o ghcall.args[2] \o "):\n"
                        \o Join("\n\n", [i \in 1..shown |-> PullEntry(Yielded[i]).v.s])

(***************************************************************************)
(* Bodies of every JSON type, the two tables, and the error the client     *)
(* shows.                                                                  *)
(***************************************************************************)
\* the request handled last is a POST whose body is a JSON document
PostedJson ==
    /\ request.method = "POST"
    /\ request.content_length = "valid"
    /\ request.body.kind = "json"

\* C26: every POST whose body is syntactically valid JSON, of any type
\* (object, array, string, number, null) and with a name or parameters
\* member of any JSON type, gets one response with status 200, 400, 404 or
\* 500, and no exception leaves do_POST.
C26_JsonPostAnswered ==
    PostedJson =>
        /\ response.sent
        /\ response.status \in {200, 400, 404, 500}
        /\ ~escaped.raised

\* the names listed in the registry, in listing order
ListedNames == [i \in 1..Len(tools.l) |-> tools.l[i].d["name"].s]

\* C27: the registry and the handler table name the same tools: every name
\* listed in TOOLS is a key of TOOL_HANDLERS, every key of TOOL_HANDLERS is
\* listed in TOOLS, and no name is listed twice; in every reachable state.
C27_CatalogMatchesDispatch ==
    /\ {ListedNames[i] : i \in 1..Len(ListedNames)} = DOMAIN TOOL_HANDLERS
    /\ \A i, k \in 1..Len(ListedNames) : ListedNames[i] = ListedNames[k] => i = k
    /\ (/\ request.method = "GET" /\ UrlPath(request.target) = "/mcp/v1/tools"
        /\ response.sent /\ response.status = 200) =>
            \A i \in 1..Len(response.body.doc.o["tools"].a) :
                response.body.doc.o["tools"].a[i].o["name"].s \in DOMAIN TOOL_HANDLERS

C27_Witness ==
    /\ request.method = "GET" /\ UrlPath(request.target) = "/mcp/v1/tools"
    /\ response.sent /\ response.status = 200
    /\ Len(response.body.doc.o["tools"].a) = 7
    /\ previous = "POST"

\* MCPClient.invoke() was called by calling code and the MCP server answered
\* the request with a status outside 2xx
InvokeAnsweredWithError ==
    /\ call.op = "invoke"
    /\ call.by = "caller"
    /\ wire.peer = "mcp_server"
    /\ response.sent
    /\ response.status \in {400, 404, 500}

\* C28: when the server answers an invocation with status 400, 404 or 500,
\* MCPClient.invoke returns result None and an error that is not None, and
\* the error holds the error text of the body the server sent.
C28_ClientCarriesServerError ==
    InvokeAnsweredWithError =>
        /\ returned.called /\ returned.out.ok
        /\ returned.out.v.t = "dict"
        /\ {"error", "result"} \subseteq DOMAIN returned.out.v.d
        /\ returned.out.v.d["result"] = PyNone
        /\ returned.out.v.d["error"].t = "str"
        /\ Contains(returned.out.v.d["error"].s, response.body.doc.o["error"].s)

\* C29: across the get_github_client calls of one process with a token
\* configured, the Github constructor is called at most once, with the
\* token alone under the default base URL and with token and base_url
\* otherwise, and every call returns the instance that call made.
C29_OneClientPerProcess ==
    /\ Len(constructed) <= 1
    /\ constructed # << >> => constructed[1] = ConfiguredArguments
    /\ (ghcall.op = "get_github_client" /\ Truthy(GITHUB_TOKEN)) =>
            /\ Len(constructed) = 1
            /\ ghout = Called(Ok(Github(constructed[1], << >>)))
            /\ _github_client = Github(constructed[1], << >>)

C29_Witness ==
    /\ ghcall.op = "get_github_client"
    /\ GITHUB_TOKEN = PyStr("test-token")
    /\ GITHUB_BASE_URL # "https://api.github.com"
    /\ ghout.called /\ ghout.out.ok
    /\ ghout.out.v = _github_client
    /\ constructed = <<[base_url |-> PyStr(GITHUB_BASE_URL),
                        login_or_token |-> PyStr("test-token")]>>

====
